---------------------------- MODULE Spec2Model ----------------------------
(***************************************************************************)
(* A model of the request-execution pipeline of the TalkSASA SMS client:   *)
(* the rate limiter (src/src/rate-limiter.ts), the retry controller        *)
(* (Utils.retry), the OAuth2 token manager (src/src/oauth2-client.ts) and  *)
(* the client's makeRequest pipeline (src/src/talksasa-client.ts).         *)
(*                                                                         *)
(* Each component has its own specification (SpecRL, SpecRetry,           *)
(* SpecOAuth, SpecValidators) over the shared variables, in which the      *)
(* components it does not exercise stay in their constructed state; Spec   *)
(* runs the client and the OAuth2 client together, SpecQuota the client    *)
(* late in a window of its rate limiter, with overlapping calls.           *)
(***************************************************************************)
EXTENDS Integers, Sequences, FiniteSets, TLC

VARIABLES
    now,        \* Date.now(), in milliseconds
    config,     \* RateLimiter.config
    requests,   \* RateLimiter.requests : Map<string, RateLimitEntry>
    lastCheck,  \* observation: the most recent isAllowed call
    windowLog,  \* observation: per identifier, the results since its window was created
    blockNote,  \* observation: per identifier, the blockedUntil announced by the last limit rejection
    admissions, \* observation: per identifier, when within the last windowMs isAllowed returned true
    retryOptions, \* Utils.retry: the options argument
    retryRun,   \* Utils.retry: the frame of one running call, with what it did so far
    tokenInfo,  \* TalkSASAOAuth2Client.tokenInfo: <<>> for null, or <<the OAuth2TokenInfo>>
    oaCalls,    \* the pending calls of the OAuth2 client's async methods, per call slot
    oaSettled,  \* observation: the call that settled in the step just taken, if one did
    oaStarted,  \* how many calls were made
    issued,     \* observation: when and with what expires_in the stored token was issued
    apiKey,     \* TalkSASAClient.apiKey; absent when the client authenticates with OAuth2
    clCalls,    \* the pending calls of the client's methods, per client slot
    clSettled,  \* observation: the client call that settled in the step just taken, if one did
    clStarted,  \* how many client methods were called
    evaluated   \* a validator applied to an argument: the argument, the outcome, the outcome again

rlVars == <<config, requests, lastCheck, windowLog, blockNote, admissions>>

rtVars == <<retryOptions, retryRun>>

oaVars == <<tokenInfo, oaCalls, oaSettled, oaStarted, issued>>

clVars == <<apiKey, clCalls, clSettled, clStarted>>

fnVars == <<evaluated>>

vars == <<now, rlVars, rtVars, oaVars, clVars, fnVars>>

\* what the actions of one component leave alone
exceptRL == <<rtVars, oaVars, clVars, fnVars>>

exceptRetry == <<rlVars, oaVars, clVars, fnVars>>

\* (every step of the OAuth2 client resets the observation clSettled)
exceptOAuth == <<rlVars, rtVars, fnVars, apiKey, clCalls, clStarted>>

(***************************************************************************)
(* Bounds of the model.                                                    *)
(***************************************************************************)
MaxTime == 6            \* the rate limiter's clock runs over 1..MaxTime
MaxRequestsRL == 2      \* maxRequests is drawn from 1..MaxRequestsRL
MaxRetries == 3         \* Utils.retry: maxRetries is drawn from 0..MaxRetries
OAuthRetries == 1       \* OAuth2Config.retries of the OAuth2 client
ClientRetries == 1      \* TalkSASAConfig.retries of the client
Horizon == 3600000      \* the OAuth2 client's clock runs over T0..T0 + Horizon (and the backoff sleeps)
MaxCalls == 2           \* the methods of the client and the OAuth2 client are called at most this often
QuotaLeft == 2          \* a window opened by earlier calls has 0..QuotaLeft admissions left
MaxDigits == 16         \* the phone numbers given to the validators have 0..MaxDigits digits
MaxMessageLen == 510    \* the messages of the gateway's error responses have up to MaxMessageLen characters
MaxBodyLen == 1601      \* the messages given to the send methods have up to MaxBodyLen characters

\* the API key of the client in API-key mode
ApiKey == "sk_live_0123456789"

\* what the rate limiter is asked about: this.apiKey || 'oauth2'
Identifiers == {ApiKey, "oauth2"}
WindowChoices == {2, 3}
BlockChoices == {1, 4}

\* An optional number that is absent (blockedUntil?: number).
Undefined == -1

\* JavaScript truthiness of an optional number: undefined and 0 are falsy.
Truthy(n) == n # Undefined /\ n # 0

(***************************************************************************)
(* RateLimiter                                                             *)
(***************************************************************************)
DefaultConfig == [maxRequests |-> 100, windowMs |-> 60000, blockDurationMs |-> 300000]

\* for (key, entry) of requests: delete when the window and the block have both passed
cleanup(reqs, t) ==
    LET keep == {k \in DOMAIN reqs :
                   ~(t >= reqs[k].resetTime
                     /\ (~Truthy(reqs[k].blockedUntil) \/ t >= reqs[k].blockedUntil))}
    IN [k \in keep |-> reqs[k]]

\* this.requests.set(identifier, entry)
MapSet(reqs, k, e) == [x \in DOMAIN reqs \cup {k} |-> IF x = k THEN e ELSE reqs[x]]

\* a write through the entry object fetched before cleanup: seen by the map
\* only when that object is still stored in it
EntryWrite(reqs, k, e) == IF k \in DOMAIN reqs THEN [reqs EXCEPT ![k] = e] ELSE reqs

LimitReached_Off(entry, cfg) == entry.count > cfg.maxRequests

\* entry.count >= this.config.maxRequests
LimitReached(entry, cfg) == entry.count >= cfg.maxRequests

\* isAllowed whose increment is lost
isAllowed_LostIncrement(reqs, cfg, identifier, t) ==
    LET entry   == IF identifier \in DOMAIN reqs THEN <<reqs[identifier]>> ELSE <<>>
        cleaned == cleanup(reqs, t)
    IN  IF entry # <<>> /\ Truthy(entry[1].blockedUntil) /\ t < entry[1].blockedUntil
          THEN [requests |-> cleaned, result |-> FALSE, branch |-> "blocked"]
        ELSE IF entry = <<>> \/ t >= entry[1].resetTime
          THEN [requests |-> MapSet(cleaned, identifier,
                                    [count |-> 1, resetTime |-> t + cfg.windowMs,
                                     blockedUntil |-> Undefined]),
                result |-> TRUE, branch |-> "fresh"]
        ELSE IF LimitReached(entry[1], cfg)
          THEN [requests |-> EntryWrite(cleaned, identifier,
                                        [entry[1] EXCEPT !.blockedUntil = t + cfg.blockDurationMs]),
                result |-> FALSE, branch |-> "limit"]
        ELSE [requests |-> cleaned, result |-> TRUE, branch |-> "count"]

\* isAllowed whose rejection of a blocked identifier starts the block anew
isAllowed_BlockExtends(reqs, cfg, identifier, t) ==
    LET entry   == IF identifier \in DOMAIN reqs THEN <<reqs[identifier]>> ELSE <<>>
        cleaned == cleanup(reqs, t)
    IN  IF entry # <<>> /\ Truthy(entry[1].blockedUntil) /\ t < entry[1].blockedUntil
          THEN [requests |-> EntryWrite(cleaned, identifier,
                                        [entry[1] EXCEPT !.blockedUntil = t + cfg.blockDurationMs]),
                result |-> FALSE, branch |-> "blocked"]
        ELSE IF entry = <<>> \/ t >= entry[1].resetTime
          THEN [requests |-> MapSet(cleaned, identifier,
                                    [count |-> 1, resetTime |-> t + cfg.windowMs,
                                     blockedUntil |-> Undefined]),
                result |-> TRUE, branch |-> "fresh"]
        ELSE IF LimitReached(entry[1], cfg)
          THEN [requests |-> EntryWrite(cleaned, identifier,
                                        [entry[1] EXCEPT !.blockedUntil = t + cfg.blockDurationMs]),
                result |-> FALSE, branch |-> "limit"]
        ELSE [requests |-> EntryWrite(cleaned, identifier,
                                      [entry[1] EXCEPT !.count = @ + 1]),
              result |-> TRUE, branch |-> "count"]

\* isAllowed(identifier) at time t: the new map, the returned boolean, the branch taken
isAllowed(reqs, cfg, identifier, t) ==
    LET entry   == IF identifier \in DOMAIN reqs THEN <<reqs[identifier]>> ELSE <<>>
        cleaned == cleanup(reqs, t)
    IN  IF entry # <<>> /\ Truthy(entry[1].blockedUntil) /\ t < entry[1].blockedUntil
          THEN [requests |-> cleaned, result |-> FALSE, branch |-> "blocked"]
        ELSE IF entry = <<>> \/ t >= entry[1].resetTime
          THEN [requests |-> MapSet(cleaned, identifier,
                                    [count |-> 1, resetTime |-> t + cfg.windowMs,
                                     blockedUntil |-> Undefined]),
                result |-> TRUE, branch |-> "fresh"]
        ELSE IF LimitReached(entry[1], cfg)
          THEN [requests |-> EntryWrite(cleaned, identifier,
                                        [entry[1] EXCEPT !.blockedUntil = t + cfg.blockDurationMs]),
                result |-> FALSE, branch |-> "limit"]
        ELSE [requests |-> EntryWrite(cleaned, identifier,
                                      [entry[1] EXCEPT !.count = @ + 1]),
              result |-> TRUE, branch |-> "count"]

\* getRemainingRequests(identifier)
getRemainingRequests(reqs, cfg, identifier, t) ==
    IF identifier \notin DOMAIN reqs THEN cfg.maxRequests
    ELSE IF t >= reqs[identifier].resetTime THEN cfg.maxRequests
    ELSE IF cfg.maxRequests - reqs[identifier].count > 0
              THEN cfg.maxRequests - reqs[identifier].count ELSE 0

EntryOf(reqs, k) == IF k \in DOMAIN reqs THEN <<reqs[k]>> ELSE <<>>

NoCheck == [identifier |-> "", at |-> 0, result |-> TRUE, branch |-> "none",
            before |-> <<>>, after |-> <<>>, note |-> Undefined]

\* the log keeps the first MaxRequestsRL + 3 results of a window
LogAppend(log, b) == IF Len(log) < MaxRequestsRL + 3 THEN Append(log, b) ELSE log


(***************************************************************************)
(* Error taxonomy (errors.ts).  An error value carries its class, its      *)
(* statusCode (Undefined when it has none), whether it has an isRetryable  *)
(* property and that property's value, and a tag that tells one thrown     *)
(* object from another.                                                    *)
(***************************************************************************)
TalkSASAAPIError(message, statusCode, isRetryable) ==
    [kind |-> "TalkSASAAPIError", message |-> message, statusCode |-> statusCode,
     hasRetryable |-> TRUE, isRetryable |-> isRetryable]

TalkSASAValidationError(message) ==
    [kind |-> "TalkSASAValidationError", message |-> message, statusCode |-> 400,
     hasRetryable |-> TRUE, isRetryable |-> FALSE]

TalkSASANetworkError(message) ==
    [kind |-> "TalkSASANetworkError", message |-> message, statusCode |-> Undefined,
     hasRetryable |-> TRUE, isRetryable |-> TRUE]

TalkSASAAuthenticationError(message) ==
    [kind |-> "TalkSASAAuthenticationError", message |-> message, statusCode |-> 401,
     hasRetryable |-> TRUE, isRetryable |-> FALSE]

TalkSASAQuotaExceededError(message) ==
    [kind |-> "TalkSASAQuotaExceededError", message |-> message, statusCode |-> 429,
     hasRetryable |-> TRUE, isRetryable |-> TRUE]

TalkSASAInsufficientBalanceError(message) ==
    [kind |-> "TalkSASAInsufficientBalanceError", message |-> message, statusCode |-> 402,
     hasRetryable |-> TRUE, isRetryable |-> FALSE]

\* a rejection that is no TalkSASA error (a plain Error, a TypeError): no isRetryable property
PlainError(kind, message) ==
    [kind |-> kind, message |-> message, statusCode |-> Undefined,
     hasRetryable |-> FALSE, isRetryable |-> FALSE]

\* a rejection with a value that is no object (a string): typeof error === 'object' fails
NonObject(value) ==
    [kind |-> "string", message |-> value, statusCode |-> Undefined,
     hasRetryable |-> FALSE, isRetryable |-> FALSE]

\* the thrown object: the error value with the tag of the place that threw it
Thrown(error, tag) == [error |-> error, tag |-> tag]

(***************************************************************************)
(* Utils.retry.  A frame is the state of one call of Utils.retry:          *)
(*   pc          "idle", "calling" (awaiting fn()), "sleeping" (awaiting   *)
(*               sleep(delay)), "returned" or "thrown"                     *)
(*   attempt     the loop variable                                         *)
(*   lastError   <<>> or <<the last caught error>>                         *)
(*   wakeAt      when the pending sleep ends                               *)
(*   value       the value returned                                        *)
(* and, as observations, the number of fn() invocations, the errors fn     *)
(* threw and the delays slept.                                             *)
(***************************************************************************)
IdleFrame ==
    [pc |-> "idle", attempt |-> 0, lastError |-> <<>>, wakeAt |-> 0, value |-> 0,
     invocations |-> 0, errors |-> <<>>, waits |-> <<>>]

\* b^e
RECURSIVE Pow(_, _)
Pow(b, e) == IF e = 0 THEN 1 ELSE b * Pow(b, e - 1)

IsLastAttempt_Early(attempt, options) == attempt + 1 >= options.maxRetries

\* attempt === options.maxRetries
IsLastAttempt(attempt, options) == attempt = options.maxRetries

\* !error.isRetryable alone: a missing property counts as false
IsNotRetryable_Falsy(error) == ~error.isRetryable

IsNotRetryable_Never(error) == FALSE

\* error && typeof error === 'object' && 'isRetryable' in error && !error.isRetryable
IsNotRetryable(error) == error.hasRetryable /\ ~error.isRetryable

\* a delay that grows linearly with the attempt
BackoffDelay_Linear(attempt, options) ==
    options.retryDelay * (1 + attempt * (options.backoffMultiplier - 1))

\* options.retryDelay * Math.pow(options.backoffMultiplier, attempt)
BackoffDelay(attempt, options) == options.retryDelay * Pow(options.backoffMultiplier, attempt)

\* for (let attempt = 0; attempt <= options.maxRetries; ...) try { return await fn()
retryEnter(frame, options) ==
    IF frame.attempt <= options.maxRetries
      THEN [frame EXCEPT !.pc = "calling", !.invocations = @ + 1]
      ELSE [frame EXCEPT !.pc = "thrown"]

\* Utils.retry(fn, options) is called
retryStart(options) == retryEnter(IdleFrame, options)

\* fn() resolved with v
retryOnResolve(frame, v) == [frame EXCEPT !.pc = "returned", !.value = v]

\* fn() rejected with thrown object e, at time t: the catch block
retryOnReject(frame, options, e, t) ==
    LET f == [frame EXCEPT !.lastError = <<e>>, !.errors = Append(@, e)]
    IN  IF IsLastAttempt(f.attempt, options) THEN [f EXCEPT !.pc = "thrown"]
        ELSE IF IsNotRetryable(e.error) THEN [f EXCEPT !.pc = "thrown"]
        ELSE [f EXCEPT !.pc = "sleeping",
                       !.wakeAt = t + BackoffDelay(f.attempt, options),
                       !.waits = Append(@, BackoffDelay(f.attempt, options))]

\* sleep(delay) resolved: attempt++ and the loop goes round
retryOnWake(frame, options) == retryEnter([frame EXCEPT !.attempt = @ + 1], options)

\* setTimeout fires no earlier than its delay
ClockAtWake(t, frame) == IF t < frame.wakeAt THEN frame.wakeAt ELSE t

(***************************************************************************)
(* Strings.  Absent stands for an optional string that is undefined or     *)
(* empty (the code tests these fields for truthiness only).                *)
(***************************************************************************)
Absent == ""

\* the character at position i of a string
CharAt(str, i) == SubSeq(str, i, i)

\* \s of the regular expressions, and the characters String.prototype.trim strips
Whitespace == {" ", "\t", "\n", "\r", "\f"}

\* [\x00-\x1F\x7F] among the characters the inputs are made of
ControlChars == {"\t", "\n", "\r", "\f"}

\* \d
Digits == {"0", "1", "2", "3", "4", "5", "6", "7", "8", "9"}

RECURSIVE TrimStart(_)
TrimStart(str) ==
    IF Len(str) > 0 /\ CharAt(str, 1) \in Whitespace
      THEN TrimStart(SubSeq(str, 2, Len(str))) ELSE str

RECURSIVE TrimEnd(_)
TrimEnd(str) ==
    IF Len(str) > 0 /\ CharAt(str, Len(str)) \in Whitespace
      THEN TrimEnd(SubSeq(str, 1, Len(str) - 1)) ELSE str

\* str.trim()
Trim(str) == TrimEnd(TrimStart(str))

\* str.replace(/[chars]/g, '')
RECURSIVE Without(_, _)
Without(str, chars) ==
    IF Len(str) = 0 THEN ""
    ELSE IF Len(str) = 1 THEN (IF str \in chars THEN "" ELSE str)
    ELSE Without(SubSeq(str, 1, Len(str) \div 2), chars)
         \o Without(SubSeq(str, Len(str) \div 2 + 1, Len(str)), chars)

\* str.replace(/\D/g, '')
RECURSIVE DigitsOf(_)
DigitsOf(str) ==
    IF Len(str) = 0 THEN ""
    ELSE (IF CharAt(str, 1) \in Digits THEN CharAt(str, 1) ELSE "")
         \o DigitsOf(SubSeq(str, 2, Len(str)))

UpperCase == "ABCDEFGHIJKLMNOPQRSTUVWXYZ"
LowerCase == "abcdefghijklmnopqrstuvwxyz"

LowerChar(ch) ==
    IF \E i \in 1..Len(UpperCase) : CharAt(UpperCase, i) = ch
      THEN CharAt(LowerCase, CHOOSE i \in 1..Len(UpperCase) : CharAt(UpperCase, i) = ch)
      ELSE ch

\* the string as a case-insensitive pattern (/.../i) sees it
RECURSIVE ToLower(_)
ToLower(str) ==
    IF Len(str) = 0 THEN ""
    ELSE IF Len(str) = 1 THEN LowerChar(str)
    ELSE ToLower(SubSeq(str, 1, Len(str) \div 2))
         \o ToLower(SubSeq(str, Len(str) \div 2 + 1, Len(str)))

\* str.includes(part)
Includes(str, part) ==
    \E i \in 1..(Len(str) - Len(part) + 1) : SubSeq(str, i, i + Len(part) - 1) = part

\* /first\s+second/.test(str)
IncludesSpaced(str, first, second) ==
    \E i \in 1..Len(str) : \E j \in (i + Len(first) + 1)..Len(str) :
        /\ SubSeq(str, i, i + Len(first) - 1) = first
        /\ \A k \in (i + Len(first))..(j - 1) : CharAt(str, k) \in Whitespace
        /\ SubSeq(str, j, j + Len(second) - 1) = second

\* str.startsWith(part)
StartsWith(str, part) == Len(str) >= Len(part) /\ SubSeq(str, 1, Len(part)) = part

\* str.substring(0, maxLength)
Substring(str, maxLength) == IF Len(str) > maxLength THEN SubSeq(str, 1, maxLength) ELSE str

\* a || b on optional strings
OrElse(a, b) == IF a # Absent THEN a ELSE b

(***************************************************************************)
(* Validators used by the OAuth2 client (validators.ts).  A validator      *)
(* yields [ok |-> TRUE, value |-> v] or [ok |-> FALSE, error |-> e].       *)
(***************************************************************************)
Valid(v) == [ok |-> TRUE, value |-> v]

Invalid(message) == [ok |-> FALSE, error |-> TalkSASAValidationError(message)]

validateGrantType(grantType) ==
    IF grantType \notin {"client_credentials", "password", "refresh_token"}
      THEN Invalid("Invalid grant type. Must be one of: client_credentials, password, refresh_token")
      ELSE Valid(grantType)

validateClientId(clientId) ==
    IF clientId = Absent THEN Invalid("OAuth client ID is required")
    ELSE IF Len(Trim(clientId)) = 0 THEN Invalid("OAuth client ID cannot be empty")
    ELSE IF Len(Trim(clientId)) < 10 THEN Invalid("OAuth client ID appears to be invalid")
    ELSE Valid(Trim(clientId))

validateClientSecret(clientSecret) ==
    IF clientSecret = Absent THEN Invalid("OAuth client secret is required")
    ELSE IF Len(Trim(clientSecret)) = 0 THEN Invalid("OAuth client secret cannot be empty")
    ELSE IF Len(Trim(clientSecret)) < 10 THEN Invalid("OAuth client secret appears to be invalid")
    ELSE Valid(Trim(clientSecret))

validateScope(scope) ==
    IF Len(Trim(scope)) > 200
      THEN Invalid("OAuth scope is too long. Maximum length is 200 characters.")
      ELSE Valid(Trim(scope))

validateOAuthUsername(username) ==
    IF username = Absent THEN Invalid("OAuth username is required for password grant")
    ELSE IF Len(Trim(username)) = 0 THEN Invalid("OAuth username cannot be empty")
    ELSE IF Len(Trim(username)) > 100
      THEN Invalid("OAuth username is too long. Maximum length is 100 characters.")
    ELSE Valid(Trim(username))

validateOAuthPassword(password) ==
    IF password = Absent THEN Invalid("OAuth password is required for password grant")
    ELSE IF Len(Trim(password)) = 0 THEN Invalid("OAuth password cannot be empty")
    ELSE Valid(Trim(password))

validateRefreshToken(refreshToken) ==
    IF refreshToken = Absent THEN Invalid("OAuth refresh token is required")
    ELSE IF Len(Trim(refreshToken)) = 0 THEN Invalid("OAuth refresh token cannot be empty")
    ELSE Valid(Trim(refreshToken))

(***************************************************************************)
(* TalkSASAOAuth2Client: the pure parts.                                   *)
(***************************************************************************)
\* an OAuth2TokenRequest
TokenRequest(grantType, clientId, clientSecret, username, password, refreshToken, scope) ==
    [grant_type |-> grantType, client_id |-> clientId, client_secret |-> clientSecret,
     username |-> username, password |-> password, refresh_token |-> refreshToken,
     scope |-> scope]

NoRequest == TokenRequest(Absent, Absent, Absent, Absent, Absent, Absent, Absent)

\* the first failed validation of a list, or <<>>
RECURSIVE FirstInvalid(_)
FirstInvalid(checks) ==
    IF checks = <<>> THEN <<>>
    ELSE IF ~Head(checks).ok THEN <<Head(checks).error>>
    ELSE FirstInvalid(Tail(checks))

\* validateTokenRequest(request): the validated request, or the first validation error
validateTokenRequest(request) ==
    LET bad == FirstInvalid(
                 <<validateGrantType(request.grant_type),
                   validateClientId(request.client_id),
                   validateClientSecret(request.client_secret)>>
                 \o (IF request.scope # Absent THEN <<validateScope(request.scope)>> ELSE <<>>)
                 \o (IF request.grant_type = "password"
                       THEN (IF request.username = Absent \/ request.password = Absent
                               THEN <<Invalid("Username and password are required for password grant")>>
                               ELSE <<validateOAuthUsername(request.username),
                                      validateOAuthPassword(request.password)>>)
                       ELSE <<>>)
                 \o (IF request.grant_type = "refresh_token"
                       THEN (IF request.refresh_token = Absent
                               THEN <<Invalid("Refresh token is required for refresh_token grant")>>
                               ELSE <<validateRefreshToken(request.refresh_token)>>)
                       ELSE <<>>))
    IN  IF bad # <<>> THEN [ok |-> FALSE, error |-> bad[1]]
        ELSE Valid(TokenRequest(
                 request.grant_type, Trim(request.client_id), Trim(request.client_secret),
                 IF request.grant_type = "password" THEN Trim(request.username) ELSE Absent,
                 IF request.grant_type = "password" THEN Trim(request.password) ELSE Absent,
                 IF request.grant_type = "refresh_token" THEN Trim(request.refresh_token) ELSE Absent,
                 IF request.scope # Absent THEN Trim(request.scope) ELSE Absent))

\* a response body of the token endpoint (response.data); expires_in 0 is an absent one
Body(error, description, accessToken, tokenType, expiresIn, refreshToken, scope) ==
    [error |-> error, error_description |-> description, access_token |-> accessToken,
     token_type |-> tokenType, expires_in |-> expiresIn, refresh_token |-> refreshToken,
     scope |-> scope]

\* parseTokenResponse(response): the OAuth2TokenResponse, or the error thrown
parseTokenResponse(data) ==
    IF data.error # Absent
      THEN [ok |-> FALSE,
            error |-> TalkSASAAuthenticationError(
                          OrElse(data.error_description, OrElse(data.error, "OAuth token request failed")))]
    ELSE IF data.access_token = Absent
      THEN [ok |-> FALSE,
            error |-> TalkSASAAPIError("Invalid token response: missing access_token", Undefined, FALSE)]
    ELSE Valid([access_token |-> data.access_token,
                token_type |-> OrElse(data.token_type, "Bearer"),
                expires_in |-> IF data.expires_in # 0 THEN data.expires_in ELSE 3600,
                refresh_token |-> data.refresh_token,
                scope |-> data.scope])

\* const buffer = 5 * 60 * 1000
Buffer == 5 * 60 * 1000

IsExpiredAt_NoBuffer(token, t) == t >= token.expires_at

\* Date.now() >= (this.tokenInfo.expires_at - buffer)
IsExpiredAt(token, t) == t >= token.expires_at - Buffer

\* isTokenExpired(); tok is <<>> (null) or <<the OAuth2TokenInfo>>
isTokenExpired(tok, t) == IF tok = <<>> THEN TRUE ELSE IsExpiredAt(tok[1], t)

\* isTokenValid()
isTokenValid(tok, t) == tok # <<>> /\ ~isTokenExpired(tok, t)

\* getTokenInfo()
getTokenInfo(tok, t) ==
    IF tok = <<>> THEN <<>> ELSE <<[tok[1] EXCEPT !.isExpired = isTokenExpired(tok, t)]>>

\* the OAuth2TokenInfo stored from a token response at time t
TokenStored(resp, t, refreshToken) ==
    <<[access_token |-> resp.access_token, token_type |-> resp.token_type,
       expires_at |-> t + (resp.expires_in * 1000), scope |-> resp.scope,
       refresh_token |-> refreshToken, isExpired |-> FALSE]>>

RefreshTokenKept_Dropped(resp, tok) == resp.refresh_token

\* tokenResponse.refresh_token || this.tokenInfo.refresh_token
RefreshTokenKept(resp, tok) ==
    IF resp.refresh_token # Absent THEN resp.refresh_token ELSE tok[1].refresh_token

\* catch blocks of which that of getAccessToken drops the token as well
TokenAfterFailure_DropOnFetch(op, tok) ==
    IF op \in {"revokeToken", "getAccessToken"} THEN <<>> ELSE tok

TokenAfterFailure_Clear(op, tok) == <<>>

TokenAfterFailure_Keep(op, tok) == tok

\* the catch blocks: revokeToken clears the token before it rethrows, the others only rethrow
TokenAfterFailure(op, tok) == IF op = "revokeToken" THEN <<>> ELSE tok

\* an axios failure: error.response (<<>> or <<[status, data]>>), error.request, error.message
AxiosError(response, hasRequest, message) ==
    [response |-> response, request |-> hasRequest, message |-> message]

\* Utils.extractErrorMessage(error) of an axios failure
extractErrorMessage(error) ==
    IF error.message # Absent THEN error.message ELSE "Unknown error occurred"

\* Utils.createNetworkError(error)
createNetworkError(error) == TalkSASANetworkError("Network error: " \o extractErrorMessage(error))

\* TalkSASAOAuth2Client.handleError(error)
oauthHandleError(error) ==
    IF error.response # <<>>
      THEN LET statusCode == error.response[1].status
               data == error.response[1].data
           IN  IF statusCode = 401
                 THEN TalkSASAAuthenticationError(
                          OrElse(data.error_description, OrElse(data.error, "OAuth authentication failed")))
               ELSE IF statusCode = 400
                 THEN TalkSASAAPIError(
                          OrElse(data.error_description, OrElse(data.error, "OAuth request failed")),
                          statusCode, FALSE)
               ELSE TalkSASAAPIError(
                          OrElse(data.error_description, OrElse(data.error, "OAuth API request failed")),
                          statusCode, statusCode >= 500)
    ELSE IF error.request THEN createNetworkError(error)
    ELSE TalkSASAAPIError(OrElse(error.message, "Unknown OAuth error occurred"), Undefined, TRUE)

(***************************************************************************)
(* Validators and Sanitizer used by TalkSASAClient.                        *)
(***************************************************************************)
\* Validators.validatePhoneNumber: 7 to 15 digits, the first of them not 0
validatePhoneNumber(phoneNumber) ==
    LET cleaned == DigitsOf(phoneNumber)
    IN  IF Len(cleaned) < 7 \/ Len(cleaned) > 15 THEN FALSE
        ELSE CharAt(cleaned, 1) # "0"

\* dangerousChars, but for the backquote, which no string of the model contains
DangerousChars == {"<", ">", "\"", "'", "&", ";", "(", ")", "|", "$", "\\"}

\* Validators.formatPhoneNumber
formatPhoneNumber(phoneNumber) ==
    IF phoneNumber = Absent THEN Invalid("Phone number is required")
    ELSE IF \E ch \in DangerousChars : Includes(phoneNumber, ch)
      THEN Invalid("Phone number contains invalid characters")
    ELSE IF Len(phoneNumber) > 50 THEN Invalid("Phone number is too long")
    ELSE IF ~validatePhoneNumber(phoneNumber)
      THEN Invalid("Invalid phone number format: " \o phoneNumber
                   \o ". Phone number must be 7-15 digits long.")
    ELSE IF Len(DigitsOf(phoneNumber)) < 7 \/ Len(DigitsOf(phoneNumber)) > 15
      THEN Invalid("Phone number contains invalid characters")
    ELSE Valid(IF StartsWith(phoneNumber, "+") THEN phoneNumber
               ELSE "+" \o DigitsOf(phoneNumber))

\* the patterns of validateMessage, all case-insensitive
UnsafeMessagePatterns ==
    {"<script", "javascript:", "onload=", "onerror=", "onclick=", "onmouseover=",
     "vbscript:", "data:text/html", "<iframe", "<object", "<embed"}

\* Validators.validateMessage
validateMessage(message) ==
    IF message = Absent THEN Invalid("Message content is required")
    ELSE IF Len(message) > 10000 THEN Invalid("Message is too long for processing")
    ELSE IF Len(Trim(message)) = 0 THEN Invalid("Message cannot be empty")
    ELSE IF Len(message) > 1600
      THEN Invalid("Message too long. Maximum length is 1600 characters.")
    ELSE IF \E pattern \in UnsafeMessagePatterns : Includes(ToLower(Trim(message)), pattern)
      THEN Invalid("Message contains potentially unsafe content")
    ELSE Valid(Trim(message))

\* Validators.validateSenderId
validateSenderId(senderId) ==
    IF senderId = Absent THEN Invalid("Sender ID is required")
    ELSE IF Len(Trim(senderId)) = 0 THEN Invalid("Sender ID cannot be empty")
    ELSE IF Len(Trim(senderId)) > 11
      THEN Invalid("Sender ID is too long. Maximum length is 11 characters.")
    ELSE Valid(Trim(senderId))

\* Sanitizer.removeControlCharacters
removeControlCharacters(input) ==
    IF input = Absent THEN "" ELSE Trim(Without(input, ControlChars))

\* Sanitizer.sanitizeText
sanitizeText(input, maxLength) ==
    IF input = Absent THEN "" ELSE Trim(Substring(removeControlCharacters(input), maxLength))

\* the case-insensitive literal patterns of Sanitizer.containsDangerousPatterns
DangerousPatterns ==
    {"<script", "javascript:", "vbscript:", "onload=", "onerror=", "onclick=", "eval(",
     "exec(", "system(", "<iframe", "<object", "<embed", "<form", "<input", "<textarea",
     "<select"}

\* its patterns of two words separated by white space
DangerousStatements ==
    {<<"union", "select">>, <<"drop", "table">>, <<"insert", "into">>,
     <<"delete", "from">>, <<"update", "set">>}

\* Sanitizer.containsDangerousPatterns
containsDangerousPatterns(input) ==
    /\ input # Absent
    /\ \/ \E pattern \in DangerousPatterns : Includes(ToLower(input), pattern)
       \/ Includes(input, "../")
       \/ \E words \in DangerousStatements : IncludesSpaced(ToLower(input), words[1], words[2])

(***************************************************************************)
(* Request data.  A value is a string, undefined, or an object: a sequence *)
(* of fields, each a key and a value.                                      *)
(***************************************************************************)
Str(v) == [t |-> "string", v |-> v, fields |-> <<>>]

Undef == [t |-> "undefined", v |-> "", fields |-> <<>>]

Obj(fields) == [t |-> "object", v |-> "", fields |-> fields]

Field(k, node) == [k |-> k, node |-> node]

\* object[key] = node
Put(fields, k, node) ==
    IF \E i \in 1..Len(fields) : fields[i].k = k
      THEN [i \in 1..Len(fields) |-> IF fields[i].k = k THEN Field(k, node) ELSE fields[i]]
      ELSE Append(fields, Field(k, node))

\* object[key], or Undef
Get(data, k) ==
    IF \E i \in 1..Len(data.fields) : data.fields[i].k = k
      THEN data.fields[CHOOSE i \in 1..Len(data.fields) : data.fields[i].k = k].node
      ELSE Undef

\* the loop of sanitizeRequestData over Object.entries(data)
RECURSIVE sanitizeEntries(_, _)
sanitizeEntries(entries, sanitized) ==
    IF entries = <<>> THEN Valid(Obj(sanitized))
    ELSE LET key == Head(entries).k
             value == Head(entries).node
             sanitizedKey == sanitizeText(key, 100)
         IN  IF sanitizedKey = "" THEN sanitizeEntries(Tail(entries), sanitized)
             ELSE IF value.t = "string"
               THEN IF containsDangerousPatterns(value.v)
                      THEN Invalid("Request contains potentially dangerous content")
                      ELSE sanitizeEntries(Tail(entries),
                               Put(sanitized, sanitizedKey, Str(sanitizeText(value.v, 1000))))
             ELSE IF value.t = "object"
               THEN LET inner == sanitizeEntries(value.fields, <<>>)
                    IN  IF ~inner.ok THEN inner
                        ELSE sanitizeEntries(Tail(entries), Put(sanitized, sanitizedKey, inner.value))
             ELSE sanitizeEntries(Tail(entries), Put(sanitized, sanitizedKey, value))

\* TalkSASAClient.sanitizeRequestData
sanitizeRequestData(data) ==
    IF data.t # "object" THEN Valid(data) ELSE sanitizeEntries(data.fields, <<>>)

(***************************************************************************)
(* TalkSASAClient: the pure parts.                                         *)
(***************************************************************************)
\* the arguments of a client method
Input(recipient, senderId, message, templateId, variables) ==
    [recipient |-> recipient, sender_id |-> senderId, message |-> message,
     templateId |-> templateId, variables |-> variables]

NoInput == Input(Absent, Absent, Absent, Absent, Undef)

\* validateSMSMessage, validateWhatsAppMessage: the presence checks
validateSMSMessage(message) ==
    IF message.recipient = Absent THEN Invalid("Recipient phone number is required")
    ELSE IF message.sender_id = Absent THEN Invalid("Sender ID is required")
    ELSE IF message.message = Absent THEN Invalid("Message content is required")
    ELSE Valid(message)

\* sendSMS up to makeRequest: the payload, or the validation error
sendSMSPayload(message) ==
    LET bad == FirstInvalid(<<validateSMSMessage(message), validateSenderId(message.sender_id),
                              validateMessage(message.message)>>)
    IN  IF bad # <<>> THEN [ok |-> FALSE, error |-> bad[1]]
        ELSE Valid(Obj(<<Field("recipient", Str(message.recipient)),
                         Field("sender_id", Str(validateSenderId(message.sender_id).value)),
                         Field("type", Str("plain")),
                         Field("message", Str(validateMessage(message.message).value)),
                         Field("schedule_time", Undef),
                         Field("dlt_template_id", Undef)>>))

\* sendWhatsApp up to makeRequest
sendWhatsAppPayload(message) ==
    LET bad == FirstInvalid(<<validateSMSMessage(message), formatPhoneNumber(message.recipient),
                              validateSenderId(message.sender_id),
                              validateMessage(message.message)>>)
    IN  IF bad # <<>> THEN [ok |-> FALSE, error |-> bad[1]]
        ELSE Valid(Obj(<<Field("recipient", Str(formatPhoneNumber(message.recipient).value)),
                         Field("sender_id", Str(validateSenderId(message.sender_id).value)),
                         Field("type", Str("whatsapp")),
                         Field("message", Str(validateMessage(message.message).value)),
                         Field("schedule_time", Undef)>>))

\* sendTemplateSMS up to makeRequest
sendTemplateSMSPayload(templateId, to, variables) ==
    IF templateId = Absent
      THEN Invalid("Template ID is required")
    ELSE IF ~formatPhoneNumber(to).ok THEN formatPhoneNumber(to)
    ELSE Valid(Obj(<<Field("templateId", Str(templateId)),
                     Field("to", Str(formatPhoneNumber(to).value)),
                     Field("variables", variables)>>))

\* the payload a client method builds from its arguments
Payload(op, input) ==
    IF op = "getAccountBalance" THEN Valid(Undef)
    ELSE IF op = "sendSMS" THEN sendSMSPayload(input)
    ELSE IF op = "sendWhatsApp" THEN sendWhatsAppPayload(input)
    ELSE sendTemplateSMSPayload(input.templateId, input.recipient, input.variables)

\* a response body of the gateway (response.data): status, message
Envelope(status, message) == [status |-> status, message |-> message]

\* parseSMSResponse
parseSMSResponse(data) ==
    IF data.status = "error"
      THEN [ok |-> FALSE,
            error |-> TalkSASAAPIError(OrElse(data.message, "SMS operation failed"),
                                       Undefined, FALSE)]
      ELSE Valid(Envelope(OrElse(data.status, "success"), data.message))

\* data[name] || otherwise, of a response body: a number and a string property
NumberOr(data, name, otherwise) ==
    IF name \in DOMAIN data /\ data[name] # 0 THEN data[name] ELSE otherwise

StringOr(data, name, otherwise) ==
    IF name \in DOMAIN data /\ data[name] # Absent THEN data[name] ELSE otherwise

\* getAccountBalance: the object built from response.data (lastUpdated left out)
AccountBalance(data) ==
    [balance |-> NumberOr(data, "balance", 0), currency |-> StringOr(data, "currency", "USD")]

\* the first position from j on whose character is not in chars
RECURSIVE SkipIn(_, _, _)
SkipIn(str, j, chars) ==
    IF j <= Len(str) /\ CharAt(str, j) \in chars THEN SkipIn(str, j + 1, chars) ELSE j

\* the first position from j on whose character is in chars
RECURSIVE SkipNotIn(_, _, _)
SkipNotIn(str, j, chars) ==
    IF j <= Len(str) /\ CharAt(str, j) \notin chars THEN SkipNotIn(str, j + 1, chars) ELSE j

\* where the match of /word[=:]\s*[^\s,]+/i that starts at position i ends, or 0
MatchEnd(str, word, i) ==
    LET sep == i + Len(word)
        first == SkipIn(str, sep + 1, Whitespace)
        last == SkipNotIn(str, first, Whitespace \cup {","})
    IN  IF /\ sep <= Len(str)
           /\ ToLower(SubSeq(str, i, sep - 1)) = word
           /\ CharAt(str, sep) \in {"=", ":"}
           /\ last > first
          THEN last ELSE 0

\* str.replace(/word[=:]\s*[^\s,]+/gi, 'word=***'), from position i on
RECURSIVE Redact(_, _, _)
Redact(str, word, i) ==
    LET starts == {j \in i..Len(str) : MatchEnd(str, word, j) > 0}
    IN  IF starts = {} THEN SubSeq(str, i, Len(str))
        ELSE LET first == CHOOSE j \in starts : \A k \in starts : j <= k
             IN  SubSeq(str, i, first - 1) \o word \o "=***"
                 \o Redact(str, word, MatchEnd(str, word, first))

\* TalkSASAClient.sanitizeErrorMessage
sanitizeErrorMessage(message) ==
    IF message = Absent THEN "Unknown error"
    ELSE LET sanitized == Redact(Redact(Redact(Redact(message, "password", 1), "token", 1),
                                        "key", 1), "secret", 1)
         IN  IF Len(sanitized) > 500 THEN SubSeq(sanitized, 1, 500) \o "..." ELSE sanitized

\* handleError without its case 429
clientHandleError_QuotaAsDefault(error) ==
    IF error.response # <<>>
      THEN LET statusCode == error.response[1].status
               responseData == error.response[1].data
           IN  IF statusCode = 401 THEN TalkSASAAuthenticationError("Authentication failed")
               ELSE IF statusCode = 402
                 THEN TalkSASAInsufficientBalanceError("Insufficient balance")
               ELSE TalkSASAAPIError(
                        sanitizeErrorMessage(OrElse(responseData.message, "API request failed")),
                        statusCode, statusCode >= 500)
    ELSE IF error.request THEN createNetworkError(error)
    ELSE TalkSASAAPIError("An unexpected error occurred", Undefined, FALSE)

\* handleError, were it to report the gateway's 400 as a validation error
clientHandleError_BadRequestAsValidation(error) ==
    IF error.response # <<>>
      THEN LET statusCode == error.response[1].status
               responseData == error.response[1].data
           IN  IF statusCode = 401 THEN TalkSASAAuthenticationError("Authentication failed")
               ELSE IF statusCode = 402
                 THEN TalkSASAInsufficientBalanceError("Insufficient balance")
               ELSE IF statusCode = 429 THEN TalkSASAQuotaExceededError("Quota exceeded")
               ELSE IF statusCode = 400
                 THEN TalkSASAValidationError(
                          sanitizeErrorMessage(OrElse(responseData.message, "API request failed")))
               ELSE TalkSASAAPIError(
                        sanitizeErrorMessage(OrElse(responseData.message, "API request failed")),
                        statusCode, statusCode >= 500)
    ELSE IF error.request THEN createNetworkError(error)
    ELSE TalkSASAAPIError("An unexpected error occurred", Undefined, FALSE)

\* TalkSASAClient.handleError(error)
clientHandleError(error) ==
    IF error.response # <<>>
      THEN LET statusCode == error.response[1].status
               responseData == error.response[1].data
           IN  IF statusCode = 401 THEN TalkSASAAuthenticationError("Authentication failed")
               ELSE IF statusCode = 402
                 THEN TalkSASAInsufficientBalanceError("Insufficient balance")
               ELSE IF statusCode = 429 THEN TalkSASAQuotaExceededError("Quota exceeded")
               ELSE TalkSASAAPIError(
                        sanitizeErrorMessage(OrElse(responseData.message, "API request failed")),
                        statusCode, statusCode >= 500)
    ELSE IF error.request THEN createNetworkError(error)
    ELSE TalkSASAAPIError("An unexpected error occurred", Undefined, FALSE)

\* what the request interceptor throws when getAccessToken() rejected; axios hands a
\* rejection of a request interceptor to the rejection handler of the response
\* interceptor, as it does a failed exchange
TokenFailure == AxiosError(<<>>, FALSE, "Failed to obtain OAuth access token")

(***************************************************************************)
(* TalkSASAOAuth2Client: calls.  An async method runs in a call slot.  Its *)
(* call record holds where it is (pc "http": inside makeRequest, the retry *)
(* frame says whether a request is in flight or a backoff sleep pending;   *)
(* "done": settled) and what it observed: the token state when it was      *)
(* called (tokenBefore), just before it settled (tokenPrev) and just after *)
(* (tokenAfter), the request it sent, the response body it got, and        *)
(* whether isTokenValid() held right after it settled.                     *)
(***************************************************************************)
Slots == {1, 2}

\* Date.now() when the model starts
T0 == 1000000

\* the OAuth2Config the client was constructed with
ClientId == "client-id-0001"
ClientSecret == "client-secret-0001"

\* retryOptions of the OAuth2 client: maxRetries: config.retries || 3
OAuthRetryOptions ==
    [maxRetries |-> IF OAuthRetries # 0 THEN OAuthRetries ELSE 3,
     retryDelay |-> 1000, backoffMultiplier |-> 2]

NoValue == [access_token |-> Absent, tokenResponse |-> <<>>, flag |-> FALSE]

IdleCall ==
    [op |-> "none", pc |-> "idle", frame |-> IdleFrame, request |-> NoRequest,
     outcome |-> "none", value |-> NoValue, error |-> <<>>,
     tokenBefore |-> <<>>, tokenPrev |-> <<>>, tokenAfter |-> <<>>, response |-> <<>>,
     startedAt |-> 0, settledAt |-> 0, validAfter |-> FALSE, fromCache |-> FALSE,
     owner |-> 0, answer |-> <<>>, overtaken |-> <<>>]

\* the method is entered
Begin(op, tok, t) == [IdleCall EXCEPT !.op = op, !.tokenBefore = tok, !.startedAt = t]

\* the method's promise settles
Settle(call, outcome, value, error, prev, after, t) ==
    [call EXCEPT !.pc = "done", !.outcome = outcome, !.value = value, !.error = error,
                 !.tokenPrev = prev, !.tokenAfter = after, !.settledAt = t,
                 !.validAfter = isTokenValid(after, t)]

\* the method returns: the settled call, the token state, and whether a token was stored
Return(call, value, tok, after, stored, t) ==
    [call |-> Settle(call, "returned", value, <<>>, tok, after, t),
     token |-> after, stored |-> stored]

\* the method throws e: its catch block runs
Fail(call, e, tok, t) ==
    [call |-> Settle(call, "rejected", NoValue, <<e>>, tok, TokenAfterFailure(call.op, tok), t),
     token |-> TokenAfterFailure(call.op, tok), stored |-> FALSE]

\* the method awaits the network
Await(call, tok) == [call |-> call, token |-> tok, stored |-> FALSE]

\* requestToken(request) up to the first await: validateTokenRequest, then makeRequest
\* enters Utils.retry, which sends the first request
requestTokenBegin(call, request, tok, t) ==
    LET v == validateTokenRequest(request)
    IN  IF ~v.ok THEN Fail([call EXCEPT !.request = request], Thrown(v.error, 0), tok, t)
        ELSE Await([call EXCEPT !.pc = "http", !.request = v.value,
                                !.frame = retryStart(OAuthRetryOptions)], tok)

\* getAccessToken() up to the first await
getAccessTokenBegin(tok, t) ==
    LET call == Begin("getAccessToken", tok, t)
    IN  IF tok # <<>> /\ ~isTokenExpired(tok, t)
          THEN Return([call EXCEPT !.fromCache = TRUE],
                      [NoValue EXCEPT !.access_token = tok[1].access_token], tok, tok, FALSE, t)
          ELSE requestTokenBegin(call,
                   TokenRequest("client_credentials", ClientId, ClientSecret,
                                Absent, Absent, Absent, Absent), tok, t)

\* refreshToken() up to the first await
refreshTokenBegin(tok, t) ==
    LET call == Begin("refreshToken", tok, t)
    IN  IF tok = <<>> \/ tok[1].refresh_token = Absent
          THEN Fail(call, Thrown(TalkSASAValidationError("No refresh token available"), 0), tok, t)
          ELSE requestTokenBegin(call,
                   TokenRequest("refresh_token", ClientId, ClientSecret,
                                Absent, Absent, tok[1].refresh_token, Absent), tok, t)

\* revokeToken() up to the first await: makeRequest('POST', '/oauth/revoke', ...)
revokeTokenBegin(tok, t) ==
    LET call == Begin("revokeToken", tok, t)
    IN  IF tok = <<>> \/ tok[1].access_token = Absent
          THEN Return(call, [NoValue EXCEPT !.flag = TRUE], tok, tok, FALSE, t)
          ELSE Await([call EXCEPT !.pc = "http", !.frame = retryStart(OAuthRetryOptions)], tok)

\* requestTokenWithPassword(username, password, scope) up to the first await
requestTokenWithPasswordBegin(username, password, scope, tok, t) ==
    LET call == Begin("requestTokenWithPassword", tok, t)
        bad == FirstInvalid(<<validateOAuthUsername(username), validateOAuthPassword(password),
                              validateScope(scope)>>)
    IN  IF bad # <<>> THEN Fail(call, Thrown(bad[1], 0), tok, t)
        ELSE requestTokenBegin(call,
                 TokenRequest("password", ClientId, ClientSecret,
                              Trim(username), Trim(password), Absent, Trim(scope)), tok, t)

\* the method resumes with makeRequest's response: everything up to its settling
Completion(call, data, tok, t) ==
    IF call.op = "revokeToken"
      THEN Return(call, [NoValue EXCEPT !.flag = TRUE], tok, <<>>, FALSE, t)
    ELSE LET p == parseTokenResponse(data)
         IN  IF ~p.ok THEN Fail(call, Thrown(p.error, 0), tok, t)
             ELSE IF call.op = "requestToken"
               THEN Return(call, [NoValue EXCEPT !.tokenResponse = <<p.value>>], tok, tok, FALSE, t)
             ELSE IF call.op = "getAccessToken"
               THEN Return(call, [NoValue EXCEPT !.access_token = p.value.access_token], tok,
                           TokenStored(p.value, t, p.value.refresh_token), TRUE, t)
             ELSE IF call.op = "requestTokenWithPassword"
               THEN Return(call, [NoValue EXCEPT !.tokenResponse = <<p.value>>], tok,
                           TokenStored(p.value, t, p.value.refresh_token), TRUE, t)
             ELSE \* refreshToken: this.tokenInfo.refresh_token is read here, after the await
                  IF p.value.refresh_token = Absent /\ tok = <<>>
                    THEN Fail(call, Thrown(PlainError("TypeError",
                                  "Cannot read properties of null (reading 'refresh_token')"), 0),
                              tok, t)
                    ELSE Return(call, [NoValue EXCEPT !.tokenResponse = <<p.value>>], tok,
                                TokenStored(p.value, t, RefreshTokenKept(p.value, tok)), TRUE, t)

\* makeRequest threw (Utils.retry gave up): the method's catch block
Abandon(call, tok, t) == Fail(call, call.frame.lastError[1], tok, t)

(***************************************************************************)
(* What the token endpoint may answer.                                     *)
(***************************************************************************)
BodyFull == Body(Absent, Absent, "t1", "Bearer", 3600, "r1", "sms")
BodyMinimal == Body(Absent, Absent, "t2", Absent, 0, Absent, Absent)
BodyShortLived == Body(Absent, Absent, "t3", "Bearer", 300, "r2", Absent)
BodyEmpty == Body(Absent, Absent, Absent, Absent, 0, Absent, Absent)
BodyError == Body("invalid_client", "Client authentication failed", Absent, Absent, 0, Absent, Absent)
BodyErrorBare == Body("invalid_grant", Absent, Absent, Absent, 0, Absent, Absent)

TokenBodies == {BodyFull, BodyMinimal, BodyShortLived, BodyEmpty, BodyError, BodyErrorBare}

\* the 2xx bodies a method's request may be answered with
ResponseBodies(op) == IF op = "revokeToken" THEN {BodyEmpty} ELSE TokenBodies

\* the ways a request may fail
Failures ==
    {AxiosError(<<[status |-> 400, data |-> BodyError]>>, TRUE, "Request failed with status code 400"),
     AxiosError(<<[status |-> 401, data |-> BodyErrorBare]>>, TRUE, "Request failed with status code 401"),
     AxiosError(<<[status |-> 500, data |-> BodyEmpty]>>, TRUE, "Request failed with status code 500"),
     AxiosError(<<>>, TRUE, "timeout of 30000ms exceeded"),
     AxiosError(<<>>, FALSE, "Unsupported protocol")}

\* the tokens setTokenInfo is called with, relative to the time of the call
SetTokenSamples(t) ==
    {[access_token |-> "old-token", token_type |-> "Bearer", expires_at |-> t - 1000,
      scope |-> Absent, refresh_token |-> "test-refresh-token", isExpired |-> TRUE],
     [access_token |-> "test-token", token_type |-> "Bearer", expires_at |-> t + 3600000,
      scope |-> Absent, refresh_token |-> Absent, isExpired |-> FALSE],
     [access_token |-> "test-token", token_type |-> "Bearer", expires_at |-> t + 3600000,
      scope |-> Absent, refresh_token |-> " ", isExpired |-> FALSE]}

\* the requests requestToken is called with directly
RequestSamples ==
    {TokenRequest("client_credentials", ClientId, ClientSecret, Absent, Absent, Absent, Absent),
     TokenRequest("invalid_grant", ClientId, ClientSecret, Absent, Absent, Absent, Absent),
     TokenRequest("password", ClientId, ClientSecret, "user", Absent, Absent, Absent),
     TokenRequest("refresh_token", ClientId, ClientSecret, Absent, Absent, Absent, Absent),
     TokenRequest("client_credentials", "short", ClientSecret, Absent, Absent, Absent, Absent)}

Usernames == {"user", Absent}
Passwords == {"secret-pw", " "}

(***************************************************************************)
(* TalkSASAClient: calls.  A client method runs in a client slot.  Inside  *)
(* makeRequest the retry frame says whether an attempt is running or a     *)
(* backoff sleep pending; a running attempt is at stage "token" (the       *)
(* request interceptor awaits getAccessToken()) or "gateway" (the request  *)
(* was dispatched).  Observations: whether the rate limiter admitted the   *)
(* call, the data sent, how many requests were dispatched, the bearer      *)
(* token of the last of them, the failure that ended the last failed       *)
(* attempt (answer), how often the call asked the rate limiter (checks)    *)
(* the entry of its identifier that check met (seen) and left (entry), and *)
(* the body of the response makeRequest returned (response).               *)
(***************************************************************************)
ClientSlots == {1, 2}

\* retryOptions of the client: maxRetries: config.retries || 3
ClientRetryOptions ==
    [maxRetries |-> IF ClientRetries # 0 THEN ClientRetries ELSE 3,
     retryDelay |-> 1000, backoffMultiplier |-> 2]

NoResult == Envelope(Absent, Absent)

ClientIdleCall ==
    [op |-> "none", pc |-> "idle", frame |-> IdleFrame, stage |-> "none", input |-> NoInput,
     data |-> Undef, outcome |-> "none", value |-> NoResult, error |-> <<>>,
     admitted |-> FALSE, sent |-> 0, bearer |-> Absent, answer |-> <<>>,
     checks |-> 0, seen |-> <<>>, entry |-> <<>>, response |-> <<>>]

\* the client method's promise settles
ClientSettle(call, outcome, value, error) ==
    [call EXCEPT !.pc = "done", !.stage = "none", !.outcome = outcome, !.value = value,
                 !.error = error]

ClientReturn(call, value) == ClientSettle(call, "returned", value, <<>>)

\* the method throws e: catch (error) { throw error }
ClientFail(call, e) == ClientSettle(call, "rejected", NoResult, <<e>>)

\* the running attempt rejected with error: the catch block of Utils.retry, and the
\* method's own when the retry loop gives up
attemptFailed(call, failure, error, t) ==
    LET frame == retryOnReject(call.frame, ClientRetryOptions,
                               Thrown(error, call.frame.invocations), t)
    IN  IF frame.pc = "thrown"
          THEN ClientFail([call EXCEPT !.frame = frame, !.answer = <<failure>>],
                          frame.lastError[1])
          ELSE [call EXCEPT !.frame = frame, !.stage = "none", !.answer = <<failure>>]

\* the method after makeRequest returned the response with body data
afterResponse(call, data) ==
    IF call.op = "getAccountBalance" THEN ClientReturn(call, AccountBalance(data))
    ELSE IF parseSMSResponse(data).ok THEN ClientReturn(call, parseSMSResponse(data).value)
    ELSE ClientFail(call, Thrown(parseSMSResponse(data).error, 0))

(***************************************************************************)
(* What the callers pass and the gateway may answer.                       *)
(***************************************************************************)
SMSMessages ==
    {Input("+254712345678", "TalkSASA", "Hello", Absent, Undef),
     Input("invalid-phone", "TestSender", "Test message", Absent, Undef),
     Input("+1234567890", "TestSender", "", Absent, Undef),
     Input("+254712345678", "TalkSASA", "<script>alert(1)</script>", Absent, Undef),
     Input("+254712345678", "TalkSASA", "see ../etc/passwd", Absent, Undef),
     Input("+254712345678", "TalkSASA", " Hi\tthere ", Absent, Undef),
     Input("+254712345678", "TooLongSender", "Hello", Absent, Undef)}

WhatsAppMessages ==
    {Input("254712345678", "TalkSASA", "Hello", Absent, Undef),
     Input("invalid-phone", "TalkSASA", "Hello", Absent, Undef)}

TemplateIds == {"tpl-1", Absent}

TemplateVariables ==
    {Obj(<<Field("name", Str("Bob"))>>),
     Obj(<<Field("name", Str("Bob")),
           Field("extra", Obj(<<Field("note", Str("DROP  TABLE users"))>>))>>)}

\* the calls the model makes
ClientRequests ==
    {[op |-> "sendSMS", input |-> message] : message \in SMSMessages}
    \cup {[op |-> "sendWhatsApp", input |-> message] : message \in WhatsAppMessages}
    \cup {[op |-> "sendTemplateSMS", input |-> Input("+254712345678", Absent, Absent, templateId, variables)] :
             templateId \in TemplateIds, variables \in TemplateVariables}
    \cup {[op |-> "getAccountBalance", input |-> NoInput]}

\* for each of them, what the method's validation makes of the arguments and what
\* sanitizeRequestData makes of the payload (computed once, looked up by the actions)
Prepared ==
    [request \in ClientRequests |->
        LET built == Payload(request.op, request.input)
        IN  [built |-> built,
             sanitizedData |-> IF built.ok THEN sanitizeRequestData(built.value) ELSE built]]

GatewayBodies ==
    {Envelope("success", "Message queued"), Envelope("error", "Insufficient credit"),
     Envelope("error", Absent), Envelope(Absent, Absent),
     [status |-> "success", message |-> Absent, balance |-> 1500, currency |-> "KES"]}

GatewayFailures ==
    {AxiosError(<<[status |-> 401, data |-> Envelope("error", "Unauthenticated")]>>, TRUE,
                "Request failed with status code 401"),
     AxiosError(<<[status |-> 402, data |-> Envelope("error", "Payment required")]>>, TRUE,
                "Request failed with status code 402"),
     AxiosError(<<[status |-> 429, data |-> Envelope("error", "Too many requests")]>>, TRUE,
                "Request failed with status code 429"),
     AxiosError(<<[status |-> 400, data |-> Envelope("error", "Invalid recipient")]>>, TRUE,
                "Request failed with status code 400"),
     AxiosError(<<[status |-> 500, data |-> Envelope("error", "upstream failed token=abc123")]>>,
                TRUE, "Request failed with status code 500"),
     AxiosError(<<>>, TRUE, "timeout of 30000ms exceeded")}

\* what the response interceptor makes of each failure (computed once)
Handled == [failure \in GatewayFailures \cup {TokenFailure} |-> clientHandleError(failure)]

\* the request interceptor after getAccessToken() settled as in oacall: the request is
\* dispatched with the token, or the attempt rejects
afterToken(call, oacall, t) ==
    IF oacall.outcome = "returned"
      THEN [call EXCEPT !.stage = "gateway", !.bearer = oacall.value.access_token,
                        !.sent = @ + 1]
      ELSE attemptFailed(call, TokenFailure, Handled[TokenFailure], t)

RetryDelayChoices == {1, 1000}
BackoffChoices == {1, 2}

\* the errors fn may throw in the retry specification
ErrorSamples ==
    {TalkSASAValidationError("invalid"), TalkSASAAuthenticationError("Authentication failed"),
     TalkSASAInsufficientBalanceError("Insufficient balance"),
     TalkSASAQuotaExceededError("Quota exceeded"), TalkSASANetworkError("Network error: timeout"),
     TalkSASAAPIError("bad request", 400, FALSE), TalkSASAAPIError("server error", 500, TRUE),
     PlainError("Error", "boom"), NonObject("ECONNRESET")}

OAuthIdle ==
    /\ tokenInfo = <<>>
    /\ oaCalls = [c \in Slots |-> IdleCall]
    /\ oaSettled = IdleCall
    /\ oaStarted = 0
    /\ issued = <<>>

ClientIdle ==
    /\ apiKey = Absent
    /\ clCalls = [k \in ClientSlots |-> ClientIdleCall]
    /\ clSettled = ClientIdleCall
    /\ clStarted = 0

\* no validator has been applied
NotEvaluated == [fn |-> "none", input |-> Absent, result |-> <<>>, again |-> <<>>]

FnIdle == evaluated = NotEvaluated

RetryIdle ==
    /\ retryOptions = [maxRetries |-> 3, retryDelay |-> 1000, backoffMultiplier |-> 2]
    /\ retryRun = IdleFrame

(***************************************************************************)
(* The rate limiter alone.                                                 *)
(***************************************************************************)
RLIdle ==
    /\ config = DefaultConfig
    /\ requests = << >>
    /\ lastCheck = NoCheck
    /\ windowLog = [k \in Identifiers |-> <<>>]
    /\ blockNote = [k \in Identifiers |-> Undefined]
    /\ admissions = [k \in Identifiers |-> <<>>]

InitRL ==
    /\ FnIdle
    /\ now = 1
    /\ config \in [maxRequests : 1..MaxRequestsRL, windowMs : WindowChoices,
                   blockDurationMs : BlockChoices]
    /\ requests = << >>
    /\ lastCheck = NoCheck
    /\ windowLog = [k \in Identifiers |-> <<>>]
    /\ blockNote = [k \in Identifiers |-> Undefined]
    /\ admissions = [k \in Identifiers |-> <<>>]
    /\ RetryIdle
    /\ OAuthIdle
    /\ ClientIdle

\* what rateLimiter.isAllowed(identifier) does to the limiter
IsAllowedStep(identifier) ==
    LET r == isAllowed(requests, config, identifier, now)
    IN  /\ requests' = r.requests
        /\ lastCheck' = [identifier |-> identifier, at |-> now, result |-> r.result,
                         branch |-> r.branch,
                         before |-> EntryOf(requests, identifier),
                         after |-> EntryOf(r.requests, identifier),
                         note |-> blockNote[identifier]]
        /\ windowLog' = [windowLog EXCEPT ![identifier] =
                            IF r.branch = "fresh" THEN <<TRUE>> ELSE LogAppend(@, r.result)]
        /\ blockNote' = [blockNote EXCEPT ![identifier] =
                            IF r.branch = "limit" THEN now + config.blockDurationMs
                            ELSE IF r.branch = "fresh" THEN Undefined ELSE @]

\* the admissions of the log that lie within the last windowMs at time t
Recent(log, t) == SelectSeq(log, LAMBDA at : at > t - config.windowMs)

\* one call of rateLimiter.isAllowed(identifier)
CallIsAllowed(identifier) ==
    /\ IsAllowedStep(identifier)
    /\ admissions' = [admissions EXCEPT ![identifier] =
                         IF isAllowed(requests, config, identifier, now).result
                           THEN Append(@, now) ELSE @]
    /\ UNCHANGED <<now, config, exceptRL>>

\* reset(identifier): the identifier is fresh again
CallReset(identifier) ==
    /\ identifier \in DOMAIN requests
    /\ requests' = [k \in DOMAIN requests \ {identifier} |-> requests[k]]
    /\ windowLog' = [windowLog EXCEPT ![identifier] = <<>>]
    /\ blockNote' = [blockNote EXCEPT ![identifier] = Undefined]
    /\ admissions' = [admissions EXCEPT ![identifier] = <<>>]
    /\ UNCHANGED <<now, config, lastCheck, exceptRL>>

\* the clock advances
TickRL ==
    /\ now < MaxTime
    /\ now' = now + 1
    /\ admissions' = [k \in Identifiers |-> Recent(admissions[k], now')]
    /\ UNCHANGED <<config, requests, lastCheck, windowLog, blockNote, exceptRL>>

NextRL ==
    \/ \E identifier \in Identifiers : CallIsAllowed(identifier)
    \/ \E identifier \in Identifiers : CallReset(identifier)
    \/ TickRL

SpecRL == InitRL /\ [][NextRL]_vars

(***************************************************************************)
(* Utils.retry alone: fn resolves or rejects as the environment chooses.   *)
(***************************************************************************)
InitRetry ==
    /\ FnIdle
    /\ now = 1
    /\ RLIdle
    /\ retryOptions \in [maxRetries : 0..MaxRetries, retryDelay : RetryDelayChoices,
                         backoffMultiplier : BackoffChoices]
    /\ retryRun = IdleFrame
    /\ OAuthIdle
    /\ ClientIdle

\* Utils.retry(fn, retryOptions) is called: the first fn() is invoked
RetryCall ==
    /\ retryRun.pc = "idle"
    /\ retryRun' = retryStart(retryOptions)
    /\ UNCHANGED <<now, exceptRetry, retryOptions>>

\* the pending fn() resolves; its value is the number of the invocation
RetryFnResolves ==
    /\ retryRun.pc = "calling"
    /\ retryRun' = retryOnResolve(retryRun, retryRun.invocations)
    /\ UNCHANGED <<now, exceptRetry, retryOptions>>

\* the pending fn() rejects
RetryFnRejects(error) ==
    /\ retryRun.pc = "calling"
    /\ retryRun' = retryOnReject(retryRun, retryOptions,
                                 Thrown(error, retryRun.invocations), now)
    /\ UNCHANGED <<now, exceptRetry, retryOptions>>

\* the backoff sleep ends
RetryWakes ==
    /\ retryRun.pc = "sleeping"
    /\ now' = ClockAtWake(now, retryRun)
    /\ retryRun' = retryOnWake(retryRun, retryOptions)
    /\ UNCHANGED <<exceptRetry, retryOptions>>

NextRetry ==
    \/ RetryCall
    \/ RetryFnResolves
    \/ \E error \in ErrorSamples : RetryFnRejects(error)
    \/ RetryWakes

SpecRetry == InitRetry /\ [][NextRetry]_vars

(***************************************************************************)
(* The OAuth2 client alone: its methods are called in any order, also      *)
(* while earlier calls await the network; the token endpoint answers or    *)
(* fails as it chooses; the clock moves to the instants that matter for    *)
(* the stored token.                                                       *)
(***************************************************************************)
InitOAuth ==
    /\ FnIdle
    /\ now = T0
    /\ RLIdle
    /\ RetryIdle
    /\ OAuthIdle
    /\ ClientIdle

\* the OAuth2 client exists unless the client was constructed with an API key
OAuthConfigured == apiKey = Absent

\* calls take the first free slot
FirstFree(c) ==
    /\ oaCalls[c].pc = "idle"
    /\ \A d \in Slots : d < c => oaCalls[d].pc # "idle"

\* (the callers of the client and of the OAuth2 client take turns: a method of one is
\* called while no call of the other is pending)
SlotFree(c) ==
    /\ OAuthConfigured
    /\ oaStarted + clStarted < MaxCalls
    /\ FirstFree(c)
    /\ \A k \in ClientSlots : clCalls[k].pc = "idle"

\* what a call in flight notes of a call that settles meanwhile
Summary(call) ==
    [op |-> call.op, outcome |-> call.outcome, access_token |-> call.value.access_token]

\* what a step of a call leaves behind: r is [call, token, stored]; a settled call
\* leaves its slot, unless a request interceptor of the client awaits it; the calls
\* still in flight note it (overtaken)
OAuthStep(c, r) ==
    /\ oaCalls' = [d \in Slots |->
                     IF d = c
                       THEN IF r.call.pc = "done" /\ r.call.owner = 0 THEN IdleCall ELSE r.call
                     ELSE IF r.call.pc = "done" /\ oaCalls[d].pc = "http"
                       THEN [oaCalls[d] EXCEPT !.overtaken = Append(@, Summary(r.call))]
                     ELSE oaCalls[d]]
    /\ clSettled' = ClientIdleCall
    /\ oaSettled' = IF r.call.pc = "done" THEN r.call ELSE IdleCall
    /\ tokenInfo' = r.token
    /\ issued' = IF r.stored
                   THEN <<[at |-> r.call.settledAt,
                           expires_in |-> parseTokenResponse(r.call.response[1]).value.expires_in]>>
                   ELSE IF r.token = tokenInfo THEN issued ELSE <<>>

CallGetAccessToken(c) ==
    /\ SlotFree(c)
    /\ OAuthStep(c, getAccessTokenBegin(tokenInfo, now))
    /\ oaStarted' = oaStarted + 1
    /\ UNCHANGED <<now, exceptOAuth>>

CallRefreshToken(c) ==
    /\ SlotFree(c)
    /\ OAuthStep(c, refreshTokenBegin(tokenInfo, now))
    /\ oaStarted' = oaStarted + 1
    /\ UNCHANGED <<now, exceptOAuth>>

CallRevokeToken(c) ==
    /\ SlotFree(c)
    /\ OAuthStep(c, revokeTokenBegin(tokenInfo, now))
    /\ oaStarted' = oaStarted + 1
    /\ UNCHANGED <<now, exceptOAuth>>

CallRequestTokenWithPassword(c, username, password) ==
    /\ SlotFree(c)
    /\ OAuthStep(c, requestTokenWithPasswordBegin(username, password, Absent, tokenInfo, now))
    /\ oaStarted' = oaStarted + 1
    /\ UNCHANGED <<now, exceptOAuth>>

CallRequestToken(c, request) ==
    /\ SlotFree(c)
    /\ OAuthStep(c, requestTokenBegin(Begin("requestToken", tokenInfo, now), request, tokenInfo, now))
    /\ oaStarted' = oaStarted + 1
    /\ UNCHANGED <<now, exceptOAuth>>

\* setTokenInfo(tokenInfo)
SetTokenInfo(sample) ==
    /\ OAuthConfigured
    /\ oaStarted + clStarted < MaxCalls
    /\ tokenInfo' = <<sample>>
    /\ issued' = <<>>
    /\ oaStarted' = oaStarted + 1
    /\ oaSettled' = IdleCall
    /\ clSettled' = ClientIdleCall
    /\ UNCHANGED <<now, oaCalls, exceptOAuth>>

\* clearToken()
ClearToken ==
    /\ tokenInfo # <<>>
    /\ tokenInfo' = <<>>
    /\ issued' = <<>>
    /\ oaSettled' = IdleCall
    /\ clSettled' = ClientIdleCall
    /\ UNCHANGED <<now, oaCalls, oaStarted, exceptOAuth>>

\* the request in flight of call c is answered 2xx with body data
OAuthHttpResolves(c, data) ==
    /\ oaCalls[c].pc = "http"
    /\ oaCalls[c].frame.pc = "calling"
    /\ data \in ResponseBodies(oaCalls[c].op)
    /\ OAuthStep(c, Completion([oaCalls[c] EXCEPT !.frame = retryOnResolve(@, 0),
                                                  !.response = <<data>>,
                                                  !.answer = <<[status |-> 200, data |-> data]>>],
                               data, tokenInfo, now))
    /\ UNCHANGED <<now, oaStarted, exceptOAuth>>

\* the request in flight of call c fails: the response interceptor turns the failure
\* into a TalkSASA error, Utils.retry catches it
OAuthHttpRejects(c, failure) ==
    /\ oaCalls[c].pc = "http"
    /\ oaCalls[c].frame.pc = "calling"
    /\ LET frame == retryOnReject(oaCalls[c].frame, OAuthRetryOptions,
                                  Thrown(oauthHandleError(failure), oaCalls[c].frame.invocations),
                                  now)
           call == [oaCalls[c] EXCEPT !.frame = frame, !.answer = failure.response]
       IN  OAuthStep(c, IF frame.pc = "thrown" THEN Abandon(call, tokenInfo, now)
                        ELSE Await(call, tokenInfo))
    /\ UNCHANGED <<now, oaStarted, exceptOAuth>>

\* the backoff sleep of call c ends: the next request is sent
OAuthWakes(c) ==
    /\ oaCalls[c].pc = "http"
    /\ oaCalls[c].frame.pc = "sleeping"
    /\ now' = ClockAtWake(now, oaCalls[c].frame)
    /\ LET frame == retryOnWake(oaCalls[c].frame, OAuthRetryOptions)
           call == [oaCalls[c] EXCEPT !.frame = frame]
       IN  OAuthStep(c, IF frame.pc = "thrown" THEN Abandon(call, tokenInfo, now')
                        ELSE Await(call, tokenInfo))
    /\ UNCHANGED <<oaStarted, exceptOAuth>>

\* the instants around the expiry of the stored token
Instants(tok) ==
    IF tok = <<>> THEN {}
    ELSE {tok[1].expires_at - Buffer - 1, tok[1].expires_at - Buffer, tok[1].expires_at - 1}

\* the clock advances
TickOAuth(t) ==
    /\ t > now
    /\ t <= T0 + Horizon
    /\ \A k \in ClientSlots : clCalls[k].pc = "idle"
    /\ now' = t
    /\ oaSettled' = IdleCall
    /\ clSettled' = ClientIdleCall
    /\ UNCHANGED <<tokenInfo, oaCalls, oaStarted, issued, exceptOAuth>>

NextOAuth ==
    \/ \E c \in Slots : CallGetAccessToken(c)
    \/ \E c \in Slots : CallRefreshToken(c)
    \/ \E c \in Slots : CallRevokeToken(c)
    \/ \E c \in Slots : \E username \in Usernames : \E password \in Passwords :
          CallRequestTokenWithPassword(c, username, password)
    \/ \E c \in Slots : \E request \in RequestSamples : CallRequestToken(c, request)
    \/ \E sample \in SetTokenSamples(now) : SetTokenInfo(sample)
    \/ ClearToken
    \/ \E c \in Slots : \E data \in TokenBodies : OAuthHttpResolves(c, data)
    \/ \E c \in Slots : \E failure \in Failures : OAuthHttpRejects(c, failure)
    \/ \E c \in Slots : OAuthWakes(c)
    \/ \E t \in Instants(tokenInfo) : TickOAuth(t)

SpecOAuth == InitOAuth /\ [][NextOAuth]_vars

(***************************************************************************)
(* The client and the OAuth2 client together.  The client authenticates    *)
(* with an API key or, when apiKey is absent, with tokens of the OAuth2    *)
(* client; the methods of both are called in any order.                    *)
(***************************************************************************)
Init ==
    /\ FnIdle
    /\ now = T0
    /\ RLIdle
    /\ RetryIdle
    /\ OAuthIdle
    /\ apiKey \in {ApiKey, Absent}
    /\ clCalls = [k \in ClientSlots |-> ClientIdleCall]
    /\ clSettled = ClientIdleCall
    /\ clStarted = 0

\* (here the calls of the client follow one another, in the first slot)
ClientSlotFree(k) ==
    /\ oaStarted + clStarted < MaxCalls
    /\ \A j \in ClientSlots : clCalls[j].pc = "idle"
    /\ k = 1
    /\ \A c \in Slots : oaCalls[c].pc = "idle"

\* what a step of a client call leaves behind; a settled call leaves its slot
ClientStep(k, call) ==
    /\ clCalls' = [clCalls EXCEPT ![k] = IF call.pc = "done" THEN ClientIdleCall ELSE call]
    /\ clSettled' = IF call.pc = "done" THEN call ELSE ClientIdleCall

\* the step leaves the OAuth2 client alone
OAuthUntouched ==
    /\ oaSettled' = IdleCall
    /\ UNCHANGED <<tokenInfo, oaCalls, oaStarted, issued>>

\* an attempt that keeps the bearer the call's earlier attempt was sent with
AttemptBegins_KeepsBearer(k, call, t) ==
    IF apiKey # Absent \/ call.bearer # Absent
      THEN /\ ClientStep(k, [call EXCEPT !.stage = "gateway",
                                         !.bearer = IF apiKey # Absent THEN apiKey ELSE @,
                                         !.sent = @ + 1])
           /\ OAuthUntouched
      ELSE LET r == getAccessTokenBegin(tokenInfo, t)
           IN  IF r.call.pc = "done"
                 THEN /\ ClientStep(k, afterToken(call, r.call, t))
                      /\ oaSettled' = r.call
                      /\ UNCHANGED <<tokenInfo, oaCalls, oaStarted, issued>>
                 ELSE \E c \in Slots :
                      /\ FirstFree(c)
                      /\ oaCalls' = [oaCalls EXCEPT ![c] = [r.call EXCEPT !.owner = k]]
                      /\ oaSettled' = IdleCall
                      /\ UNCHANGED <<tokenInfo, oaStarted, issued>>
                      /\ ClientStep(k, [call EXCEPT !.stage = "token"])

\* an attempt of the call in slot k starts at time t: httpClient.request(config) runs the
\* request interceptor, which in OAuth2 mode calls getAccessToken()
AttemptBegins(k, call, t) ==
    IF apiKey # Absent
      THEN /\ ClientStep(k, [call EXCEPT !.stage = "gateway", !.bearer = apiKey, !.sent = @ + 1])
           /\ OAuthUntouched
      ELSE LET r == getAccessTokenBegin(tokenInfo, t)
           IN  IF r.call.pc = "done"
                 THEN /\ ClientStep(k, afterToken(call, r.call, t))
                      /\ oaSettled' = r.call
                      /\ UNCHANGED <<tokenInfo, oaCalls, oaStarted, issued>>
                 ELSE \E c \in Slots :
                      /\ FirstFree(c)
                      /\ oaCalls' = [oaCalls EXCEPT ![c] = [r.call EXCEPT !.owner = k]]
                      /\ oaSettled' = IdleCall
                      /\ UNCHANGED <<tokenInfo, oaStarted, issued>>
                      /\ ClientStep(k, [call EXCEPT !.stage = "token"])

\* makeRequest with the sanitizer ahead of the rate limiter
makeRequest_SanitizerFirst(k, call) ==
    LET identifier == IF apiKey # Absent THEN apiKey ELSE "oauth2"
        allowed == isAllowed(requests, config, identifier, now).result
        sanitizedData == Prepared[[op |-> call.op, input |-> call.input]].sanitizedData
        checked == [call EXCEPT !.checks = @ + 1, !.seen = EntryOf(requests, identifier),
                                !.entry = EntryOf(isAllowed(requests, config, identifier, now).requests,
                                                  identifier)]
    IN  IF ~sanitizedData.ok
          THEN /\ ClientStep(k, ClientFail(call, Thrown(sanitizedData.error, 0)))
               /\ OAuthUntouched
               /\ UNCHANGED <<requests, lastCheck, windowLog, blockNote>>
          ELSE /\ IsAllowedStep(identifier)
               /\ IF ~allowed
                    THEN /\ ClientStep(k, ClientFail([checked EXCEPT !.data = sanitizedData.value],
                                                     Thrown(TalkSASAQuotaExceededError(
                                                       "Rate limit exceeded. Please try again later."), 0)))
                         /\ OAuthUntouched
                    ELSE AttemptBegins(k, [checked EXCEPT !.admitted = TRUE, !.pc = "http",
                                                          !.data = sanitizedData.value,
                                                          !.frame = retryStart(ClientRetryOptions)], now)

\* makeRequest(method, endpoint, data) up to its first await: the rate limiter, the
\* sanitizer, then Utils.retry starts the first attempt
makeRequest(k, call) ==
    LET identifier == IF apiKey # Absent THEN apiKey ELSE "oauth2"
        allowed == isAllowed(requests, config, identifier, now).result
        sanitizedData == Prepared[[op |-> call.op, input |-> call.input]].sanitizedData
        checked == [call EXCEPT !.checks = @ + 1, !.seen = EntryOf(requests, identifier),
                                !.entry = EntryOf(isAllowed(requests, config, identifier, now).requests,
                                                  identifier)]
    IN  /\ IsAllowedStep(identifier)
        /\ IF ~allowed
             THEN /\ ClientStep(k, ClientFail(checked, Thrown(TalkSASAQuotaExceededError(
                                       "Rate limit exceeded. Please try again later."), 0)))
                  /\ OAuthUntouched
           ELSE IF ~sanitizedData.ok
             THEN /\ ClientStep(k, ClientFail([checked EXCEPT !.admitted = TRUE],
                                              Thrown(sanitizedData.error, 0)))
                  /\ OAuthUntouched
           ELSE AttemptBegins(k, [checked EXCEPT !.admitted = TRUE, !.pc = "http",
                                              !.data = sanitizedData.value,
                                              !.frame = retryStart(ClientRetryOptions)], now)

\* a client method is called: its validation, then makeRequest
ClientCall(k, op, input) ==
    /\ clStarted' = clStarted + 1
    /\ LET built == Prepared[[op |-> op, input |-> input]].built
           call == [ClientIdleCall EXCEPT !.op = op, !.input = input]
       IN  IF ~built.ok
             THEN /\ ClientStep(k, ClientFail(call, Thrown(built.error, 0)))
                  /\ OAuthUntouched
                  /\ UNCHANGED <<requests, lastCheck, windowLog, blockNote>>
             ELSE makeRequest(k, call)
    /\ UNCHANGED <<now, config, admissions, apiKey, rtVars, fnVars>>

\* sendSMS(message)
CallSendSMS(k, message) ==
    /\ ClientSlotFree(k)
    /\ ClientCall(k, "sendSMS", message)

\* sendWhatsApp(message)
CallSendWhatsApp(k, message) ==
    /\ ClientSlotFree(k)
    /\ ClientCall(k, "sendWhatsApp", message)

\* sendTemplateSMS(templateId, to, variables)
CallSendTemplateSMS(k, templateId, to, variables) ==
    /\ ClientSlotFree(k)
    /\ ClientCall(k, "sendTemplateSMS", Input(to, Absent, Absent, templateId, variables))

\* getAccountBalance()
CallGetAccountBalance(k) ==
    /\ ClientSlotFree(k)
    /\ ClientCall(k, "getAccountBalance", NoInput)

\* the getAccessToken() call the request interceptor of call k awaits has settled
ClientTokenSettles(k) ==
    /\ clCalls[k].pc = "http"
    /\ clCalls[k].stage = "token"
    /\ \E c \in Slots :
          /\ oaCalls[c].owner = k
          /\ oaCalls[c].pc = "done"
          /\ oaCalls' = [oaCalls EXCEPT ![c] = IdleCall]
          /\ ClientStep(k, afterToken(clCalls[k], oaCalls[c], now))
    /\ oaSettled' = IdleCall
    /\ UNCHANGED <<now, tokenInfo, oaStarted, issued, rlVars, rtVars, fnVars, apiKey, clStarted>>

\* the gateway answers the dispatched request of call k 2xx with body data
GatewayResolves(k, data) ==
    /\ clCalls[k].pc = "http"
    /\ clCalls[k].stage = "gateway"
    /\ ClientStep(k, afterResponse([clCalls[k] EXCEPT !.frame = retryOnResolve(@, 0),
                                                      !.response = <<data>>], data))
    /\ OAuthUntouched
    /\ UNCHANGED <<now, rlVars, rtVars, fnVars, apiKey, clStarted>>

\* the dispatched request of call k fails: the response interceptor turns the failure
\* into a TalkSASA error, Utils.retry catches it
GatewayRejects(k, failure) ==
    /\ clCalls[k].pc = "http"
    /\ clCalls[k].stage = "gateway"
    /\ ClientStep(k, attemptFailed(clCalls[k], failure, Handled[failure], now))
    /\ OAuthUntouched
    /\ UNCHANGED <<now, rlVars, rtVars, fnVars, apiKey, clStarted>>

\* a retry attempt that asks the rate limiter again
ClientWakes_Checked(k) ==
    /\ clCalls[k].pc = "http"
    /\ clCalls[k].frame.pc = "sleeping"
    /\ now' = ClockAtWake(now, clCalls[k].frame)
    /\ IsAllowedStep(IF apiKey # Absent THEN apiKey ELSE "oauth2")
    /\ AttemptBegins(k, [clCalls[k] EXCEPT !.frame = retryOnWake(@, ClientRetryOptions)], now')
    /\ UNCHANGED <<config, admissions, rtVars, fnVars, apiKey, clStarted>>

\* the backoff sleep of call k ends: the next attempt starts
ClientWakes(k) ==
    /\ clCalls[k].pc = "http"
    /\ clCalls[k].frame.pc = "sleeping"
    /\ now' = ClockAtWake(now, clCalls[k].frame)
    /\ AttemptBegins(k, [clCalls[k] EXCEPT !.frame = retryOnWake(@, ClientRetryOptions)], now')
    /\ UNCHANGED <<rlVars, rtVars, fnVars, apiKey, clStarted>>

NextClient ==
    \/ \E k \in ClientSlots : \E message \in SMSMessages : CallSendSMS(k, message)
    \/ \E k \in ClientSlots : \E message \in WhatsAppMessages : CallSendWhatsApp(k, message)
    \/ \E k \in ClientSlots : \E templateId \in TemplateIds :
          \E variables \in TemplateVariables :
             CallSendTemplateSMS(k, templateId, "+254712345678", variables)
    \/ \E k \in ClientSlots : CallGetAccountBalance(k)
    \/ \E k \in ClientSlots : ClientTokenSettles(k)
    \/ \E k \in ClientSlots : \E data \in GatewayBodies : GatewayResolves(k, data)
    \/ \E k \in ClientSlots : \E failure \in GatewayFailures : GatewayRejects(k, failure)
    \/ \E k \in ClientSlots : ClientWakes(k)

Next == NextOAuth \/ NextClient

Spec == Init /\ [][Next]_vars

(***************************************************************************)
(* The client late in a window of its rate limiter: earlier calls opened   *)
(* the window of the client's identifier and used all but a few of its     *)
(* admissions.  Nothing but the client calls the OAuth2 client.            *)
(***************************************************************************)
Identifier == IF apiKey # Absent THEN apiKey ELSE "oauth2"

\* how long ago the window was opened
WindowAge == 1000

UsedWindow(identifier, left) ==
    /\ config = DefaultConfig
    /\ requests = MapSet(<< >>, identifier,
                         [count |-> DefaultConfig.maxRequests - left,
                          resetTime |-> T0 - WindowAge + DefaultConfig.windowMs,
                          blockedUntil |-> Undefined])
    /\ lastCheck = NoCheck
    /\ windowLog = [k \in Identifiers |->
                      IF k = identifier THEN [i \in 1..(MaxRequestsRL + 3) |-> TRUE] ELSE <<>>]
    /\ blockNote = [k \in Identifiers |-> Undefined]
    /\ admissions = [k \in Identifiers |-> <<>>]

InitQuota ==
    /\ FnIdle
    /\ now = T0
    /\ apiKey \in {ApiKey, Absent}
    /\ \E left \in 0..QuotaLeft : UsedWindow(Identifier, left)
    /\ RetryIdle
    /\ OAuthIdle
    /\ clCalls = [k \in ClientSlots |-> ClientIdleCall]
    /\ clSettled = ClientIdleCall
    /\ clStarted = 0

\* calls take the first free slot (the calls of a client in OAuth2 mode follow one
\* another, those of a client in API-key mode overlap)
ClientSlotOpen(k) ==
    /\ clStarted < MaxCalls
    /\ clCalls[k].pc = "idle"
    /\ \A j \in ClientSlots : j < k => clCalls[j].pc # "idle"
    /\ apiKey = Absent => \A j \in ClientSlots : clCalls[j].pc = "idle"

\* sendSMS(message), while other calls of the client may be pending
OverlappingSendSMS(k, message) ==
    /\ ClientSlotOpen(k)
    /\ ClientCall(k, "sendSMS", message)

\* sendWhatsApp(message), while other calls of the client may be pending
OverlappingSendWhatsApp(k, message) ==
    /\ ClientSlotOpen(k)
    /\ ClientCall(k, "sendWhatsApp", message)

\* sendTemplateSMS(templateId, to, variables), while other calls of the client may be pending
OverlappingSendTemplateSMS(k, templateId, to, variables) ==
    /\ ClientSlotOpen(k)
    /\ ClientCall(k, "sendTemplateSMS", Input(to, Absent, Absent, templateId, variables))

\* the clock reaches the end of the window, while no call is pending
WindowEnds ==
    /\ Identifier \in DOMAIN requests
    /\ now < requests[Identifier].resetTime
    /\ \A k \in ClientSlots : clCalls[k].pc = "idle"
    /\ now' = requests[Identifier].resetTime
    /\ oaSettled' = IdleCall
    /\ clSettled' = ClientIdleCall
    /\ UNCHANGED <<tokenInfo, oaCalls, oaStarted, issued, exceptOAuth>>

NextQuota ==
    \/ \E k \in ClientSlots : \E message \in SMSMessages : OverlappingSendSMS(k, message)
    \/ \E k \in ClientSlots : \E message \in WhatsAppMessages : OverlappingSendWhatsApp(k, message)
    \/ \E k \in ClientSlots : \E templateId \in TemplateIds :
          \E variables \in TemplateVariables :
             OverlappingSendTemplateSMS(k, templateId, "+254712345678", variables)
    \/ \E k \in ClientSlots : ClientTokenSettles(k)
    \/ \E k \in ClientSlots : \E data \in GatewayBodies : GatewayResolves(k, data)
    \/ \E k \in ClientSlots : \E failure \in GatewayFailures : GatewayRejects(k, failure)
    \/ \E k \in ClientSlots : ClientWakes(k)
    \/ \E c \in Slots : \E data \in TokenBodies : OAuthHttpResolves(c, data)
    \/ \E c \in Slots : \E failure \in Failures : OAuthHttpRejects(c, failure)
    \/ \E c \in Slots : OAuthWakes(c)
    \/ WindowEnds

SpecQuota == InitQuota /\ [][NextQuota]_vars

(***************************************************************************)
(* The validators alone: a validator is applied to an argument, and once   *)
(* more to what it returned.                                               *)
(***************************************************************************)
exceptFn == <<now, rlVars, rtVars, oaVars, clVars>>

\* the first n digits of a subscriber number
DigitRun(n) == SubSeq("25471234567890123", 1, n)

Padding == "                                        "

\* ways of writing the number with the digits d
Written(d) ==
    {d, "+" \o d, "0" \o d, "(" \o d \o ")", d \o Padding}
    \cup (IF Len(d) > 3
            THEN {SubSeq(d, 1, 3) \o " " \o SubSeq(d, 4, Len(d)),
                  "+" \o SubSeq(d, 1, 3) \o " " \o SubSeq(d, 4, Len(d) - 1) \o "-"
                      \o SubSeq(d, Len(d), Len(d))}
            ELSE {})

PhoneNumbers == UNION {Written(DigitRun(n)) : n \in 0..MaxDigits}

\* str repeated n times
RECURSIVE Repeat(_, _)
Repeat(str, n) ==
    IF n <= 0 THEN ""
    ELSE LET half == Repeat(str, n \div 2)
         IN  half \o half \o (IF n % 2 = 1 THEN str ELSE "")

\* what a gateway may say of a secret in the message of an error response
Leaks ==
    {"password=hunter2", "Token: abc123", "api_key=xyz789", "client secret:s3cr3t",
     "no such route"}

\* the message made total characters long
Padded(message, total) == message \o Repeat(".", total - Len(message))

ErrorMessages ==
    {Padded("Request rejected (" \o leak \o ") ", total) :
        leak \in Leaks, total \in {0, 499, 500, 501, MaxMessageLen}}

\* the error response of the gateway with that message
ErrorResponse(message) ==
    AxiosError(<<[status |-> 500, data |-> Envelope("error", message)]>>, TRUE,
               "Request failed with status code 500")

\* the message strings given to sendSMS and sendWhatsApp
MessageTexts ==
    {"Hello", "  Hello there  ", "Line one\nLine two", "Name:\tBob", "   ",
     "<script>alert(1)</script>", "fill in the <form> below",
     Repeat("a", 160), Repeat("a", 1000), Repeat("a", 1001), Repeat("a", 1600),
     Repeat("a", MaxBodyLen)}

\* what makeRequest hands to the HTTP client for the payload the method built
RequestBody(op, message) ==
    LET built == Payload(op, Input("254712345678", "TalkSASA", message, Absent, Undef))
    IN  IF built.ok THEN sanitizeRequestData(built.value) ELSE built

InitValidators ==
    /\ now = 1
    /\ RLIdle
    /\ RetryIdle
    /\ OAuthIdle
    /\ ClientIdle
    /\ evaluated \in {[NotEvaluated EXCEPT !.fn = "formatPhoneNumber", !.input = phoneNumber] :
                         phoneNumber \in PhoneNumbers}
                     \cup {[NotEvaluated EXCEPT !.fn = "handleError", !.input = message] :
                              message \in ErrorMessages}
                     \cup {[NotEvaluated EXCEPT !.fn = op, !.input = message] :
                              op \in {"sendSMS", "sendWhatsApp"}, message \in MessageTexts}

\* handleError(error), error being the gateway's error response with the message
ApplyHandleError ==
    /\ evaluated.fn = "handleError"
    /\ evaluated.result = <<>>
    /\ evaluated' = [evaluated EXCEPT !.result =
                                        <<clientHandleError(ErrorResponse(evaluated.input))>>]
    /\ UNCHANGED exceptFn

\* Validators.formatPhoneNumber(phoneNumber)
ApplyFormatPhoneNumber ==
    /\ evaluated.fn = "formatPhoneNumber"
    /\ evaluated.result = <<>>
    /\ evaluated' = [evaluated EXCEPT !.result = <<formatPhoneNumber(evaluated.input)>>]
    /\ UNCHANGED exceptFn

\* Validators.formatPhoneNumber(formatted), formatted being what the first call returned
ApplyFormatPhoneNumberAgain ==
    /\ evaluated.fn = "formatPhoneNumber"
    /\ evaluated.result # <<>>
    /\ evaluated.result[1].ok
    /\ evaluated.again = <<>>
    /\ evaluated' = [evaluated EXCEPT !.again = <<formatPhoneNumber(evaluated.result[1].value)>>]
    /\ UNCHANGED exceptFn

\* sendSMS with that message: Validators.validateMessage, then the body of the request
ApplySendSMS ==
    /\ evaluated.fn = "sendSMS"
    /\ evaluated.result = <<>>
    /\ evaluated' = [evaluated EXCEPT !.result = <<validateMessage(evaluated.input)>>,
                                      !.again = <<RequestBody("sendSMS", evaluated.input)>>]
    /\ UNCHANGED exceptFn

\* sendWhatsApp with that message
ApplySendWhatsApp ==
    /\ evaluated.fn = "sendWhatsApp"
    /\ evaluated.result = <<>>
    /\ evaluated' = [evaluated EXCEPT !.result = <<validateMessage(evaluated.input)>>,
                                      !.again = <<RequestBody("sendWhatsApp", evaluated.input)>>]
    /\ UNCHANGED exceptFn

NextValidators ==
    \/ ApplySendSMS
    \/ ApplySendWhatsApp
    \/ ApplyHandleError
    \/ ApplyFormatPhoneNumber
    \/ ApplyFormatPhoneNumberAgain

SpecValidators == InitValidators /\ [][NextValidators]_vars


\* the error has an isRetryable property and it is false
IsExplicitlyFalse(error) == error.hasRetryable /\ error.isRetryable = FALSE

\* every error the operation threw so far left the retry loop running
AllRetried(frame) == \A i \in 1..Len(frame.errors) : ~IsExplicitlyFalse(frame.errors[i].error)


(***************************************************************************)
(* C1: with maxRequests = N >= 1, the calls of one window of an identifier *)
(* return true for the first N and false from call N+1 on; a rejection     *)
(* that no block in force explains (call N+1) sets blockedUntil to         *)
(* now + blockDurationMs; and every later call made before that instant    *)
(* returns false, also when the window's resetTime has passed.             *)
(***************************************************************************)
C1_WindowThenBlock ==
    /\ \A k \in Identifiers : \A i \in 1..Len(windowLog[k]) :
          windowLog[k][i] = (i <= config.maxRequests)
    /\ (lastCheck.branch # "none" /\ ~lastCheck.result
          /\ ~(Truthy(lastCheck.note) /\ lastCheck.at < lastCheck.note))
       => /\ lastCheck.after # <<>>
          /\ lastCheck.after[1].blockedUntil = lastCheck.at + config.blockDurationMs
    /\ (lastCheck.branch # "none" /\ Truthy(lastCheck.note) /\ lastCheck.at < lastCheck.note)
       => ~lastCheck.result

\* a call rejected by the block after the window's resetTime has passed,
\* N+2 or more calls into the window
C1_Witness ==
    /\ lastCheck.branch # "none"
    /\ ~lastCheck.result
    /\ lastCheck.before # <<>>
    /\ lastCheck.at >= lastCheck.before[1].resetTime
    /\ lastCheck.at < lastCheck.note
    /\ Len(windowLog[lastCheck.identifier]) >= config.maxRequests + 2
    /\ windowLog[lastCheck.identifier][config.maxRequests + 1] = FALSE

(***************************************************************************)
(* C2: with maxRetries = N, Utils.retry invokes the operation until its    *)
(* first success or until N+1 invocations have failed: a run that returns  *)
(* after k retried failures made exactly k+1 invocations (k <= N) and      *)
(* returns the value of the last one; a run that throws although no error  *)
(* was flagged non-retryable made exactly N+1 invocations and throws the   *)
(* very error of invocation N+1.                                           *)
(***************************************************************************)
C2_RetryUntilSuccessOrExhaustion ==
    LET N == retryOptions.maxRetries
        f == retryRun
    IN  /\ f.invocations <= N + 1
        /\ f.pc = "returned" =>
             /\ Len(f.errors) <= N
             /\ f.invocations = Len(f.errors) + 1
             /\ f.value = f.invocations
        /\ (f.pc = "thrown" /\ AllRetried(f)) =>
             /\ f.invocations = N + 1
             /\ Len(f.errors) = N + 1
             /\ f.lastError = <<f.errors[N + 1]>>
             /\ f.errors[N + 1].tag = N + 1

\* fails twice with retryable errors, succeeds on the third invocation, N = 3
C2_Witness ==
    /\ retryOptions.maxRetries = 3
    /\ retryRun.pc = "returned"
    /\ Len(retryRun.errors) = 2
    /\ retryRun.invocations = 3
    /\ retryRun.value = 3

(***************************************************************************)
(* C3: an error whose isRetryable is explicitly false ends the retry loop  *)
(* at once, whatever maxRetries is: it is the last error, it is the error  *)
(* thrown to the caller, and no backoff wait follows it; when it is the    *)
(* first failure the operation was invoked exactly once and no wait        *)
(* occurred at all.                                                        *)
(***************************************************************************)
C3_NonRetryableInvokedOnce ==
    LET f == retryRun
    IN  \A i \in 1..Len(f.errors) :
           IsExplicitlyFalse(f.errors[i].error) =>
              /\ f.pc = "thrown"
              /\ i = Len(f.errors)
              /\ f.invocations = i
              /\ Len(f.waits) = i - 1
              /\ f.lastError = <<f.errors[i]>>

\* a validation error on the first invocation, with three retries allowed
C3_Witness ==
    /\ retryOptions.maxRetries = 3
    /\ retryRun.pc = "thrown"
    /\ retryRun.invocations = 1
    /\ retryRun.waits = <<>>
    /\ retryRun.lastError = <<Thrown(TalkSASAValidationError("invalid"), 1)>>

\* a response body the token endpoint answered a call with, as parseTokenResponse reads it
Parsed(call) == parseTokenResponse(call.response[1]).value

(***************************************************************************)
(* C6: isTokenValid() is true exactly when a token is stored and           *)
(* now < expires_at - 300000: a token stored from a response with          *)
(* expires_in = 3600 is valid at the instant of issue and invalid at every *)
(* instant from issue + 3600000 - 300000 on; with no token stored it is    *)
(* false.                                                                  *)
(***************************************************************************)
C6_ValidUntilFiveMinutesBeforeExpiry ==
    /\ isTokenValid(tokenInfo, now) <=> (tokenInfo # <<>> /\ now < tokenInfo[1].expires_at - 300000)
    /\ (issued # <<>> /\ issued[1].expires_in = 3600) =>
          /\ now = issued[1].at => isTokenValid(tokenInfo, now)
          /\ now >= issued[1].at + 3600000 - 300000 => ~isTokenValid(tokenInfo, now)
    /\ tokenInfo = <<>> => ~isTokenValid(tokenInfo, now)

\* one millisecond before the expiry of a token issued with expires_in = 3600
C6_Witness ==
    /\ issued # <<>>
    /\ issued[1].expires_in = 3600
    /\ now = issued[1].at + 3600000 - 1
    /\ tokenInfo # <<>>
    /\ ~isTokenValid(tokenInfo, now)

(***************************************************************************)
(* C7: getAccessToken() returns the cached access token with no token      *)
(* request exactly when a token is cached and the expiry check passes at   *)
(* the call; otherwise it sends a client-credentials token request, and    *)
(* when that succeeds the token built from the response is stored, its     *)
(* access token is returned, and isTokenValid() is true right afterwards.  *)
(***************************************************************************)
C7_GetAccessTokenEndsTokenValid ==
    /\ \A c \in Slots : oaCalls[c].op = "getAccessToken" =>
          /\ ~isTokenValid(oaCalls[c].tokenBefore, oaCalls[c].startedAt)
          /\ oaCalls[c].request.grant_type = "client_credentials"
    /\ oaSettled.op = "getAccessToken" =>
          /\ oaSettled.fromCache <=> isTokenValid(oaSettled.tokenBefore, oaSettled.startedAt)
          /\ oaSettled.fromCache =>
                /\ oaSettled.outcome = "returned"
                /\ oaSettled.frame.invocations = 0
                /\ oaSettled.value.access_token = oaSettled.tokenBefore[1].access_token
                /\ tokenInfo = oaSettled.tokenBefore
          /\ ~oaSettled.fromCache =>
                /\ oaSettled.request.grant_type = "client_credentials"
                /\ oaSettled.frame.invocations >= 1
          /\ (~oaSettled.fromCache /\ oaSettled.outcome = "returned") =>
                /\ tokenInfo = <<[access_token |-> Parsed(oaSettled).access_token,
                                  token_type |-> Parsed(oaSettled).token_type,
                                  expires_at |-> now + Parsed(oaSettled).expires_in * 1000,
                                  scope |-> Parsed(oaSettled).scope,
                                  refresh_token |-> Parsed(oaSettled).refresh_token,
                                  isExpired |-> FALSE]>>
                /\ oaSettled.value.access_token = Parsed(oaSettled).access_token
                /\ isTokenValid(tokenInfo, now)

(***************************************************************************)
(* C8: refreshToken() called when no refresh token is stored (no token, or *)
(* a token without refresh_token) rejects with TalkSASAValidationError,    *)
(* sends no HTTP request, and leaves the stored token as it was.           *)
(***************************************************************************)
C8_RefreshWithoutRefreshToken ==
    /\ \A c \in Slots : oaCalls[c].op = "refreshToken" =>
          /\ oaCalls[c].tokenBefore # <<>>
          /\ oaCalls[c].tokenBefore[1].refresh_token # Absent
    /\ (/\ oaSettled.op = "refreshToken"
        /\ (oaSettled.tokenBefore = <<>> \/ oaSettled.tokenBefore[1].refresh_token = Absent)) =>
          /\ oaSettled.outcome = "rejected"
          /\ oaSettled.error[1].error.kind = "TalkSASAValidationError"
          /\ oaSettled.frame.invocations = 0
          /\ tokenInfo = oaSettled.tokenBefore

\* refreshToken() rejected while a token without refresh_token is stored
C8_Witness ==
    /\ oaSettled.op = "refreshToken"
    /\ oaSettled.tokenBefore # <<>>
    /\ oaSettled.tokenBefore[1].refresh_token = Absent
    /\ oaSettled.outcome = "rejected"
    /\ tokenInfo = oaSettled.tokenBefore

(***************************************************************************)
(* C9: when refreshToken() succeeds, the stored token is exactly the one   *)
(* built from the response (access token, token type, expires_at = now +   *)
(* expires_in * 1000, scope, isExpired false); its refresh token is the    *)
(* response's when the response carries one, and the one stored just       *)
(* before only when the response omits it.                                 *)
(***************************************************************************)
C9_RefreshReplacesTokenState ==
    (oaSettled.op = "refreshToken" /\ oaSettled.outcome = "returned") =>
        /\ oaSettled.response # <<>>
        /\ tokenInfo # <<>>
        /\ tokenInfo[1].access_token = oaSettled.response[1].access_token
        /\ tokenInfo[1].token_type = Parsed(oaSettled).token_type
        /\ tokenInfo[1].expires_at = now + Parsed(oaSettled).expires_in * 1000
        /\ tokenInfo[1].scope = oaSettled.response[1].scope
        /\ tokenInfo[1].isExpired = FALSE
        /\ oaSettled.response[1].refresh_token # Absent =>
              tokenInfo[1].refresh_token = oaSettled.response[1].refresh_token
        /\ oaSettled.response[1].refresh_token = Absent =>
              /\ oaSettled.tokenPrev # <<>>
              /\ tokenInfo[1].refresh_token = oaSettled.tokenPrev[1].refresh_token
        /\ oaSettled.value.tokenResponse = <<Parsed(oaSettled)>>

\* a refresh whose response omits refresh_token keeps the stored one
C9_Witness ==
    /\ oaSettled.op = "refreshToken"
    /\ oaSettled.outcome = "returned"
    /\ oaSettled.response[1].refresh_token = Absent
    /\ oaSettled.tokenPrev # <<>>
    /\ oaSettled.tokenPrev[1].refresh_token # Absent
    /\ tokenInfo[1].refresh_token = oaSettled.tokenPrev[1].refresh_token
    /\ tokenInfo[1].access_token # oaSettled.tokenPrev[1].access_token

FailedValidation(call) ==
    /\ call.outcome = "rejected"
    /\ call.error[1].error.kind = "TalkSASAValidationError"

\* some string of the data, at any depth, matches a dangerous pattern
RECURSIVE HasDangerousString(_)
HasDangerousString(data) ==
    IF data.t = "string" THEN containsDangerousPatterns(data.v)
    ELSE IF data.t = "object"
      THEN \E i \in 1..Len(data.fields) : HasDangerousString(data.fields[i].node)
    ELSE FALSE

\* the calls whose arguments fail the method's validation
InvalidRequests == {request \in ClientRequests : ~Payload(request.op, request.input).ok}

\* the calls whose payload has a dangerous string in it
DangerousRequests ==
    {request \in ClientRequests \ InvalidRequests :
        HasDangerousString(Payload(request.op, request.input).value)}

\* the arguments of the settled client call fail the method's validation, or the payload
\* built from them reaches the sanitizer with a dangerous string in it
RejectedInput(call) ==
    LET request == [op |-> call.op, input |-> call.input]
    IN  request \in InvalidRequests \/ (call.admitted /\ request \in DangerousRequests)

\* the token request is one that validateTokenRequest refuses for its grant
RejectedGrant(request) ==
    \/ request.grant_type \notin {"client_credentials", "password", "refresh_token"}
    \/ request.grant_type = "password" /\ (request.username = Absent \/ request.password = Absent)
    \/ request.grant_type = "refresh_token" /\ request.refresh_token = Absent

(***************************************************************************)
(* C4: every call of the client or of the OAuth2 client that fails with a  *)
(* TalkSASAValidationError fails with zero transport invocations, zero     *)
(* retry attempts and no backoff wait; and the calls the contract names    *)
(* (arguments that fail the method's validation, a dangerous pattern in a  *)
(* string at any depth of the payload, an unsupported grant type, a        *)
(* password grant without username or password, a refresh grant without    *)
(* refresh token, refreshToken() with no refresh token stored) do fail     *)
(* that way.                                                               *)
(***************************************************************************)
C4_ValidationFailsBeforeAnyRequest ==
    /\ FailedValidation(clSettled) => clSettled.frame = IdleFrame /\ clSettled.sent = 0
    /\ FailedValidation(oaSettled) => oaSettled.frame = IdleFrame
    /\ (clSettled.op # "none" /\ RejectedInput(clSettled)) => FailedValidation(clSettled)
    /\ (oaSettled.op = "requestToken" /\ RejectedGrant(oaSettled.request)) =>
          FailedValidation(oaSettled)
    /\ (/\ oaSettled.op = "refreshToken"
        /\ (oaSettled.tokenBefore = <<>> \/ oaSettled.tokenBefore[1].refresh_token = Absent)) =>
          FailedValidation(oaSettled)

\* sendTemplateSMS was admitted by the rate limiter and rejected for the dangerous string
\* two levels down in its variables, with nothing sent
C4_Witness ==
    /\ clSettled.op = "sendTemplateSMS"
    /\ clSettled.admitted
    /\ [op |-> clSettled.op, input |-> clSettled.input] \in DangerousRequests
    /\ ~containsDangerousPatterns(clSettled.input.variables.fields[1].node.v)
    /\ FailedValidation(clSettled)
    /\ clSettled.error[1].error.message = "Request contains potentially dangerous content"
    /\ clSettled.frame.invocations = 0
    /\ clSettled.sent = 0

(***************************************************************************)
(* C5: sendSMS called with a recipient that does not pass phone-number     *)
(* validation rejects with TalkSASAValidationError before any HTTP request *)
(* is issued: no such call is ever awaiting the network, and when it       *)
(* settles it was rejected with a validation error and nothing was sent.   *)
(***************************************************************************)
C5_InvalidRecipientRejected ==
    /\ \A k \in ClientSlots :
          clCalls[k].op = "sendSMS" => validatePhoneNumber(clCalls[k].input.recipient)
    /\ (clSettled.op = "sendSMS" /\ ~validatePhoneNumber(clSettled.input.recipient)) =>
          /\ FailedValidation(clSettled)
          /\ clSettled.frame.invocations = 0
          /\ clSettled.sent = 0

\* the methods that request a token
TokenOps == {"getAccessToken", "requestToken", "refreshToken", "requestTokenWithPassword"}

\* the last answer of the token endpoint to the call carried an OAuth error body
AnsweredOAuthError(call) ==
    /\ call.op \in TokenOps
    /\ call.answer # <<>>
    /\ call.answer[1].data.error # Absent

(***************************************************************************)
(* C11: a token operation whose token request is answered with an OAuth    *)
(* error body {error, error_description?}, with HTTP 200 or with a non-2xx *)
(* status such as 400 or 401, fails with TalkSASAAuthenticationError whose *)
(* message is error_description when present and error otherwise.          *)
(***************************************************************************)
C11_OAuthErrorBodyIsAuthenticationError ==
    AnsweredOAuthError(oaSettled) =>
        /\ oaSettled.outcome = "rejected"
        /\ oaSettled.error[1].error.kind = "TalkSASAAuthenticationError"
        /\ oaSettled.error[1].error.message =
              OrElse(oaSettled.answer[1].data.error_description, oaSettled.answer[1].data.error)

\* the client calls, pending or just settled
ClientCalls == {clCalls[k] : k \in ClientSlots} \cup {clSettled}

\* the last failed attempt of the call ended with a failed HTTP exchange
ExchangeFailed(call) ==
    call.answer # <<>> /\ (call.answer[1].response # <<>> \/ call.answer[1].request)

\* the error that the contract assigns to a failed exchange
IsMappedTo(failure, error) ==
    IF failure.response = <<>>
      THEN error.kind = "TalkSASANetworkError" /\ error.isRetryable
    ELSE IF failure.response[1].status = 401 THEN error.kind = "TalkSASAAuthenticationError"
    ELSE IF failure.response[1].status = 402 THEN error.kind = "TalkSASAInsufficientBalanceError"
    ELSE IF failure.response[1].status = 429 THEN error.kind = "TalkSASAQuotaExceededError"
    ELSE /\ error.kind = "TalkSASAAPIError"
         /\ error.statusCode = failure.response[1].status
         /\ error.isRetryable = (failure.response[1].status >= 500)

\* 429, 5xx and no response
RetriedFailure(failure) ==
    \/ failure.response = <<>>
    \/ failure.response[1].status = 429
    \/ failure.response[1].status >= 500

(***************************************************************************)
(* C12: a failed HTTP exchange of a client call maps to an error by its    *)
(* status: 401 AuthenticationError, 402 InsufficientBalanceError, 429      *)
(* QuotaExceededError, any other status s APIError with statusCode s and   *)
(* isRetryable = (s >= 500), no response NetworkError (retryable).  A 429, *)
(* 5xx or no-response failure of an attempt that is not the last is        *)
(* followed by a backoff wait and another attempt; a 401, 402 or other 4xx *)
(* failure ends the call at once, rejected with the mapped error.          *)
(***************************************************************************)
C12_TransportFailureMapping ==
    \A call \in ClientCalls : ExchangeFailed(call) =>
        LET failure == call.answer[1]
            frame == call.frame
        IN  /\ IsMappedTo(failure, frame.lastError[1].error)
            /\ (RetriedFailure(failure) /\ Len(frame.errors) <= ClientRetryOptions.maxRetries) =>
                  /\ Len(frame.waits) = Len(frame.errors)
                  /\ frame.pc = "sleeping" \/ frame.invocations = Len(frame.errors) + 1
            /\ ~RetriedFailure(failure) =>
                  /\ call.pc = "done"
                  /\ call.outcome = "rejected"
                  /\ call.error = frame.lastError
                  /\ frame.invocations = Len(frame.errors)
                  /\ Len(frame.waits) = Len(frame.errors) - 1

\* a call whose first request was answered 429 is in its second attempt, after one wait
C12_Witness ==
    \E k \in ClientSlots :
        /\ ExchangeFailed(clCalls[k])
        /\ clCalls[k].answer[1].response # <<>>
        /\ clCalls[k].answer[1].response[1].status = 429
        /\ clCalls[k].frame.lastError[1].error.kind = "TalkSASAQuotaExceededError"
        /\ clCalls[k].stage = "gateway"
        /\ clCalls[k].frame.invocations = 2
        /\ clCalls[k].sent = 2
        /\ Len(clCalls[k].frame.waits) = 1

\* the errors in the state: those the calls settled with and those their attempts threw
ErrorsOf(call) ==
    {call.error[i].error : i \in 1..Len(call.error)}
    \cup {call.frame.errors[i].error : i \in 1..Len(call.frame.errors)}

ProducedErrors ==
    UNION ({ErrorsOf(call) : call \in ClientCalls}
           \cup {ErrorsOf(oaCalls[c]) : c \in Slots} \cup {ErrorsOf(oaSettled)})

\* isRetryable as the kind, and for an API error the status code, determine it
RetryableByKind(error) ==
    IF error.kind \in {"TalkSASAValidationError", "TalkSASAAuthenticationError",
                       "TalkSASAInsufficientBalanceError"} THEN FALSE
    ELSE IF error.kind \in {"TalkSASAQuotaExceededError", "TalkSASANetworkError"} THEN TRUE
    ELSE error.statusCode # Undefined /\ error.statusCode >= 500

(***************************************************************************)
(* C13: every TalkSASA error produced in the client or in the OAuth2       *)
(* client has isRetryable fixed by its kind (Validation, Authentication,   *)
(* InsufficientBalance: false; QuotaExceeded, Network: true), and a        *)
(* TalkSASAAPIError has isRetryable = true exactly when its statusCode is  *)
(* defined and at least 500.                                               *)
(***************************************************************************)
C13_RetryableFixedByKind ==
    \A error \in ProducedErrors :
        error.hasRetryable => (error.isRetryable = RetryableByKind(error))

(***************************************************************************)
(* C14: a client call the rate limiter refuses fails with                  *)
(* TalkSASAQuotaExceededError before any sanitization, any OAuth2 token    *)
(* acquisition and any HTTP request, and it is not retried although the    *)
(* error is flagged retryable: the retry loop is never entered.            *)
(***************************************************************************)
Refused(call) == call.checks = 1 /\ ~call.admitted

C14_RefusedBeforeAnyWork ==
    \A call \in ClientCalls :
       Refused(call) =>
          /\ call = clSettled
          /\ call.outcome = "rejected"
          /\ call.error[1].error =
                TalkSASAQuotaExceededError("Rate limit exceeded. Please try again later.")
          /\ call.error[1].error.isRetryable
          /\ ~lastCheck.result
          /\ call.data = Undef
          /\ call.frame = IdleFrame
          /\ call.sent = 0
          /\ call.bearer = Absent
          /\ oaSettled = IdleCall
          /\ \A c \in Slots : oaCalls[c].owner = 0

\* a client in OAuth2 mode with retries configured is refused by the block in force
C14_Witness ==
    /\ Refused(clSettled)
    /\ apiKey = Absent
    /\ ClientRetryOptions.maxRetries >= 1
    /\ lastCheck.branch = "blocked"
    /\ tokenInfo = <<>>

(***************************************************************************)
(* C15: in OAuth2 mode, a client call whose token acquisition fails while  *)
(* the Authorization header is resolved rejects with the                   *)
(* TalkSASAAuthenticationError of the request interceptor, not re-wrapped  *)
(* by the error mapping; that attempt sends no gateway request, and the    *)
(* call is not retried.                                                    *)
(***************************************************************************)
TokenAcquisitionFailed(call) == call.answer = <<TokenFailure>>

\* the attempt that failed sent nothing, and the call was settled at once
NothingSentNotRetried(call) ==
    /\ call.pc = "done"
    /\ call.outcome = "rejected"
    /\ call.sent = call.frame.invocations - 1
    /\ call.bearer = Absent \/ call.sent > 0

C15_TokenFailurePropagatesAsIs ==
    \A call \in ClientCalls :
       TokenAcquisitionFailed(call) =>
          /\ NothingSentNotRetried(call)
          /\ call.error[1].error =
                TalkSASAAuthenticationError("Failed to obtain OAuth access token")

\* what the code does instead: the error mapping replaces the error
C15_TokenFailureRewrapped ==
    \A call \in ClientCalls :
       TokenAcquisitionFailed(call) =>
          /\ NothingSentNotRetried(call)
          /\ call.error[1].error = TalkSASAAPIError("An unexpected error occurred", Undefined, FALSE)

(***************************************************************************)
(* C16: for every client endpoint method, a response the gateway answered  *)
(* 2xx whose body has status = "error" makes the call reject with a        *)
(* TalkSASAAPIError carrying the body's message (a default text when the   *)
(* message is absent), never return a result; the error is raised after    *)
(* the retry loop returned, so the request is not sent again.              *)
(***************************************************************************)
ErrorEnvelope(call) == call.response # <<>> /\ call.response[1].status = "error"

RejectedWithEnvelopeMessage(call) ==
    /\ call.pc = "done"
    /\ call.outcome = "rejected"
    /\ call.error[1].error.kind = "TalkSASAAPIError"
    /\ call.error[1].error.message # Absent
    /\ call.response[1].message # Absent
         => call.error[1].error.message = call.response[1].message
    /\ call.frame.pc = "returned"
    /\ call.sent = call.frame.invocations

C16_ErrorEnvelopeRejects ==
    \A call \in ClientCalls : ErrorEnvelope(call) => RejectedWithEnvelopeMessage(call)

\* the methods that hand the response to parseSMSResponse do so
C16_ErrorEnvelopeRejectsWhereParsed ==
    \A call \in ClientCalls :
       ErrorEnvelope(call) /\ call.op # "getAccountBalance" => RejectedWithEnvelopeMessage(call)

(***************************************************************************)
(* C17: with calls of one client in flight concurrently, each call's       *)
(* rate-limit check and increment is one atomic step: no two calls         *)
(* admitted in one window of the identifier met the same count, each met a *)
(* count below maxRequests, and the count of a window, which is the number *)
(* of calls admitted in it, never exceeds maxRequests.                     *)
(***************************************************************************)
\* the calls in flight and the call that has just settled
Observed == <<clCalls[1], clCalls[2], clSettled>>

Admitted(call) == call.checks = 1 /\ call.admitted

\* the count an admitted call met in the window it was admitted in
CountMet(call) == call.entry[1].count - 1

SameWindow(a, b) == a.entry[1].resetTime = b.entry[1].resetTime

C17_CheckAndIncrementAtomic ==
    /\ \A i \in 1..3 : Admitted(Observed[i]) =>
          /\ Observed[i].entry # <<>>
          /\ CountMet(Observed[i]) \in 0..(config.maxRequests - 1)
          /\ Observed[i].seen # <<>> /\ Observed[i].seen[1].resetTime = Observed[i].entry[1].resetTime
               => Observed[i].seen[1].count = CountMet(Observed[i])
    /\ \A i \in 1..3 : \A j \in 1..3 :
          (i < j /\ Admitted(Observed[i]) /\ Admitted(Observed[j])
             /\ SameWindow(Observed[i], Observed[j]))
          => CountMet(Observed[i]) # CountMet(Observed[j])
    /\ \A k \in DOMAIN requests : requests[k].count <= config.maxRequests

\* two calls in flight at once were both admitted, and the window is used up
C17_Witness ==
    /\ clCalls[1].pc = "http"
    /\ clCalls[2].pc = "http"
    /\ Admitted(clCalls[1])
    /\ Admitted(clCalls[2])
    /\ SameWindow(clCalls[1], clCalls[2])
    /\ CountMet(clCalls[2]) = CountMet(clCalls[1]) + 1
    /\ requests[Identifier].count = config.maxRequests

(***************************************************************************)
(* C18: of two getAccessToken() calls in flight at once, both having found *)
(* the token absent or expired, each sends its own token request and       *)
(* returns the access token of its own response; and once both have        *)
(* returned, the cached token is the one built from the response that      *)
(* completed last, and it passes the expiry check.                         *)
(***************************************************************************)
Fetched(call) == call.op = "getAccessToken" /\ ~call.fromCache

FetchedToken(call) == Fetched(call) /\ call.pc = "done" /\ call.outcome = "returned"

\* the call returned after a getAccessToken() call that returned while it was in flight
CompletedLast(call) ==
    /\ FetchedToken(call)
    /\ \E i \in 1..Len(call.overtaken) :
          call.overtaken[i].op = "getAccessToken" /\ call.overtaken[i].outcome = "returned"

\* the call returned while another getAccessToken() call is in flight
CompletedFirst(call) ==
    /\ FetchedToken(call)
    /\ \E c \in Slots : Fetched(oaCalls[c]) /\ oaCalls[c].pc = "http"

OwnRequestOwnToken(call) ==
    /\ call.frame.invocations >= 1
    /\ call.request.grant_type = "client_credentials"
    /\ call.value.access_token = parseTokenResponse(call.response[1]).value.access_token

CacheFromResponseOf(call) ==
    tokenInfo = TokenStored(parseTokenResponse(call.response[1]).value, call.settledAt,
                            parseTokenResponse(call.response[1]).value.refresh_token)

\* all of the statement but the expiry check
C18_EachItsOwnLastOneCached ==
    /\ \A c \in Slots : (Fetched(oaCalls[c]) /\ oaCalls[c].pc = "http") =>
          /\ oaCalls[c].frame.invocations >= 1
          /\ ~isTokenValid(oaCalls[c].tokenBefore, oaCalls[c].startedAt)
    /\ CompletedFirst(oaSettled) => OwnRequestOwnToken(oaSettled) /\ CacheFromResponseOf(oaSettled)
    /\ CompletedLast(oaSettled) => OwnRequestOwnToken(oaSettled) /\ CacheFromResponseOf(oaSettled)

C18_ConcurrentFetchesLastOneValid ==
    /\ C18_EachItsOwnLastOneCached
    /\ CompletedLast(oaSettled) => isTokenValid(tokenInfo, now)

\* the two calls returned different tokens, the cache holds the later one
C18_BothReturned ==
    /\ CompletedLast(oaSettled)
    /\ \E i \in 1..Len(oaSettled.overtaken) :
          /\ oaSettled.overtaken[i].op = "getAccessToken"
          /\ oaSettled.overtaken[i].outcome = "returned"
          /\ oaSettled.overtaken[i].access_token # oaSettled.value.access_token
    /\ tokenInfo[1].access_token = oaSettled.value.access_token

(***************************************************************************)
(* C19: the rate limiter is a sliding-window gate: for an identifier and   *)
(* any time interval of length windowMs, at most maxRequests isAllowed     *)
(* calls made within the interval return true: at any instant, at most     *)
(* maxRequests admissions lie within the last windowMs.                    *)
(***************************************************************************)
C19_SlidingWindow ==
    \A k \in Identifiers : Len(admissions[k]) <= config.maxRequests

\* what holds instead: the admissions counted in one entry stay within maxRequests
C19_FixedWindow ==
    \A k \in DOMAIN requests : requests[k].count <= config.maxRequests

(***************************************************************************)
(* C20: formatPhoneNumber fails with a validation error for every input    *)
(* whose digit count is outside 7..15; for every input whose digit count   *)
(* is within 7..15 it returns "+" followed by the digits of the input; and *)
(* applied to a value it returned it returns that value again.             *)
(***************************************************************************)
DigitCount(str) == Len(DigitsOf(str))

Formatted == evaluated.fn = "formatPhoneNumber" /\ evaluated.result # <<>>

C20_OutOfRangeRejected ==
    (Formatted /\ DigitCount(evaluated.input) \notin 7..15)
    => /\ ~evaluated.result[1].ok
       /\ evaluated.result[1].error.kind = "TalkSASAValidationError"

C20_Idempotent ==
    (Formatted /\ evaluated.again # <<>>) => evaluated.again[1] = evaluated.result[1]

C20_PlusDigitsWithinRange ==
    /\ C20_OutOfRangeRejected
    /\ (Formatted /\ DigitCount(evaluated.input) \in 7..15)
       => /\ evaluated.result[1].ok
          /\ evaluated.result[1].value = "+" \o DigitsOf(evaluated.input)
    /\ C20_Idempotent

(***************************************************************************)
(* C21: every error message the client derives from a gateway error        *)
(* response has its password, token, key and secret pairs replaced by the  *)
(* *** placeholder and is at most 500 characters long, however long the    *)
(* message of the response.                                                *)
(***************************************************************************)
Derived == evaluated.fn = "handleError" /\ evaluated.result # <<>>

SecretValues == {"hunter2", "abc123", "xyz789", "s3cr3t"}

C21_SecretsRedacted ==
    Derived =>
       /\ \A secret \in SecretValues : ~Includes(evaluated.result[1].message, secret)
       /\ (\E secret \in SecretValues : Includes(evaluated.input, secret))
            => Includes(evaluated.result[1].message, "=***")

\* what the truncation does keep: 500 characters and the three dots
C21_AtMost503 ==
    Derived =>
       /\ Len(evaluated.result[1].message) <= 503
       /\ Len(evaluated.input) <= 500 => Len(evaluated.result[1].message) <= 500

C21_RedactedAndAtMost500 ==
    /\ C21_SecretsRedacted
    /\ Derived => Len(evaluated.result[1].message) <= 500

(***************************************************************************)
(* C22: with maxRequests >= 1 every stored entry of the rate limiter has a *)
(* count between 1 and maxRequests; a call of isAllowed that returns false *)
(* leaves the count and the resetTime of the identifier's entry as they    *)
(* were; and a call rejected while the identifier is already blocked does  *)
(* not move blockedUntil.                                                  *)
(***************************************************************************)
Rejected == lastCheck.branch # "none" /\ ~lastCheck.result

AlreadyBlocked ==
    /\ lastCheck.before # <<>>
    /\ Truthy(lastCheck.before[1].blockedUntil)
    /\ lastCheck.at < lastCheck.before[1].blockedUntil

C22_EntryInvariants ==
    /\ \A k \in DOMAIN requests :
          1 <= requests[k].count /\ requests[k].count <= config.maxRequests
    /\ Rejected =>
          /\ lastCheck.before # <<>> /\ lastCheck.after # <<>>
          /\ lastCheck.after[1].count = lastCheck.before[1].count
          /\ lastCheck.after[1].resetTime = lastCheck.before[1].resetTime
    /\ (Rejected /\ AlreadyBlocked) =>
          lastCheck.after[1].blockedUntil = lastCheck.before[1].blockedUntil

\* a second rejection during the block, at a later instant than the first,
\* of an identifier whose count stands at a limit of two
C22_Witness ==
    /\ Rejected /\ AlreadyBlocked
    /\ config.maxRequests = 2
    /\ lastCheck.before[1].count = 2
    /\ lastCheck.at + config.blockDurationMs > lastCheck.before[1].blockedUntil
    /\ lastCheck.identifier \in DOMAIN requests
    /\ requests[lastCheck.identifier] = lastCheck.after[1]

(***************************************************************************)
(* C23: the wait after failed attempt i (counted from 0) is exactly        *)
(* retryDelay * backoffMultiplier^i: the first wait is retryDelay and each *)
(* later wait is the one before it times backoffMultiplier, so with the    *)
(* client's options (3 retries, 1000 ms, multiplier 2) the waits are 1000, *)
(* 2000 and 4000 ms; the failure that ends the loop, the final attempt's   *)
(* or a non-retryable one, is followed by no wait.                         *)
(***************************************************************************)
ClientOptions == [maxRetries |-> 3, retryDelay |-> 1000, backoffMultiplier |-> 2]

C23_ExponentialBackoff ==
    LET f == retryRun
        n == Len(f.waits)
    IN  /\ n >= 1 => f.waits[1] = retryOptions.retryDelay
        /\ \A i \in 1..(n - 1) : f.waits[i + 1] = f.waits[i] * retryOptions.backoffMultiplier
        /\ retryOptions = ClientOptions => f.waits = SubSeq(<<1000, 2000, 4000>>, 1, n)
        /\ f.pc = "sleeping" => /\ n = Len(f.errors)
                                /\ now + f.waits[n] = f.wakeAt
        /\ f.pc = "thrown" => n = Len(f.errors) - 1
        /\ f.pc \in {"calling", "returned"} => n = Len(f.errors)
        /\ n <= retryOptions.maxRetries

\* four failed invocations under the client's options: three waits, none after the last
C23_Witness ==
    /\ retryOptions = ClientOptions
    /\ retryRun.pc = "thrown"
    /\ retryRun.invocations = 4
    /\ retryRun.waits = <<1000, 2000, 4000>>
    /\ now = 1 + 7000

(***************************************************************************)
(* C24: an error that has no isRetryable property at all, a plain Error or *)
(* a rejection with a value that is no object, is treated as retryable:    *)
(* unless it was the failure of the final attempt the operation is invoked *)
(* again after the backoff wait, so that a run in which every failure is   *)
(* of that kind ends only in success or after maxRetries + 1 failed        *)
(* invocations.                                                            *)
(***************************************************************************)
NoRetryableProperty(error) == ~error.hasRetryable

C24_NoPropertyMeansRetryable ==
    LET f == retryRun
        N == retryOptions.maxRetries
    IN  /\ \A i \in 1..Len(f.errors) :
              (NoRetryableProperty(f.errors[i].error) /\ i <= N) =>
                 /\ Len(f.waits) >= i
                 /\ \/ f.pc = "sleeping" /\ Len(f.errors) = i /\ f.invocations = i
                    \/ f.invocations >= i + 1
        /\ (f.pc = "thrown"
              /\ \A i \in 1..Len(f.errors) : NoRetryableProperty(f.errors[i].error)) =>
             /\ f.invocations = N + 1
             /\ Len(f.errors) = N + 1
             /\ Len(f.waits) = N

\* a plain Error, then a rejection with a string, then success, three retries allowed
C24_Witness ==
    /\ retryOptions.maxRetries = 3
    /\ retryRun.pc = "returned"
    /\ retryRun.invocations = 3
    /\ Len(retryRun.waits) = 2
    /\ retryRun.errors = <<Thrown(PlainError("Error", "boom"), 1),
                           Thrown(NonObject("ECONNRESET"), 2)>>

(***************************************************************************)
(* C25: one client call asks the rate limiter exactly once, however many   *)
(* HTTP attempts it makes: the check admits it by counting one more in the *)
(* identifier's entry (or by opening a window with count 1), the attempts  *)
(* that follow, retries included, leave the limiter as it is, so that a    *)
(* call that needed r retries and was not overtaken by another call's      *)
(* check leaves the entry as its own check left it; and a retry attempt    *)
(* starts when its backoff wait ends, never rejected by the limiter.       *)
(***************************************************************************)
RateLimitError == TalkSASAQuotaExceededError("Rate limit exceeded. Please try again later.")

CountedOnce(call) ==
    /\ call.entry # <<>>
    /\ \/ call.seen # <<>> /\ call.entry[1] = [call.seen[1] EXCEPT !.count = @ + 1]
       \/ call.entry[1].count = 1 /\ call.entry[1].blockedUntil = Undefined

OneCheckPerCall ==
    /\ \A call \in {clCalls[1], clCalls[2], clSettled} :
          /\ call.checks <= 1
          /\ call.frame.invocations >= 1 => (Admitted(call) /\ CountedOnce(call))
          /\ \A i \in 1..Len(call.frame.errors) : call.frame.errors[i].error # RateLimitError
    /\ (Admitted(clSettled) /\ (apiKey = Absent \/ clStarted = 1)) =>
          /\ Identifier \in DOMAIN requests
          /\ requests[Identifier] = clSettled.entry[1]

\* the step starts a retry attempt of call k
RetryAttempt(k) ==
    /\ clCalls[k].frame.pc = "sleeping"
    /\ clCalls'[k].frame.invocations = clCalls[k].frame.invocations + 1

LimiterLeftAlone ==
    /\ (\A k \in ClientSlots : clCalls'[k].checks <= clCalls[k].checks /\ clSettled'.checks = 0)
          => UNCHANGED <<requests, lastCheck>>
    /\ \A k \in ClientSlots :
          RetryAttempt(k) =>
             /\ UNCHANGED <<requests, lastCheck, blockNote>>
             /\ clCalls'[k].checks = 1
             /\ clCalls'[k].frame.pc = "calling"
             /\ clCalls'[k].frame.errors = clCalls[k].frame.errors
             /\ now' = IF now < clCalls[k].frame.wakeAt THEN clCalls[k].frame.wakeAt ELSE now

C25_OneAdmissionPerCall == []OneCheckPerCall /\ [][LimiterLeftAlone]_vars

\* a call that was admitted as number 99 of its window, failed once and succeeded on
\* its retry, has just returned: the entry stands at 99
C25_Witness ==
    /\ clSettled.outcome = "returned"
    /\ clSettled.frame.invocations = 2
    /\ clSettled.seen # <<>>
    /\ clSettled.seen[1].count = 98
    /\ requests[Identifier].count = 99
    /\ clStarted = 1

(***************************************************************************)
(* C26: for the send methods the message string in the body of the HTTP    *)
(* request equals the value Validators.validateMessage returned, for every *)
(* message it accepts, messages of 1001 to 1600 characters and messages    *)
(* with a newline or a tab among them.                                     *)
(***************************************************************************)
Sent == evaluated.fn \in {"sendSMS", "sendWhatsApp"} /\ evaluated.result # <<>>

Accepted == evaluated.result[1].ok

\* the request is made: sanitizeRequestData did not throw
Requested == evaluated.again[1].ok

BodyMessage == Get(evaluated.again[1].value, "message").v

HasControlCharacter(str) == \E i \in 1..Len(str) : CharAt(str, i) \in ControlChars

\* what does hold: a message of at most 1000 characters without control characters
\* is sent as validated
C26_ShortPlainMessageSentAsValidated ==
    (Sent /\ Accepted /\ Requested
       /\ Len(evaluated.result[1].value) <= 1000
       /\ ~HasControlCharacter(evaluated.result[1].value))
    => BodyMessage = evaluated.result[1].value

\* and the others are sent cut to 1000 characters or with the control characters gone
C26_LongOrControlMessageAltered ==
    (Sent /\ Accepted /\ Requested
       /\ (Len(evaluated.result[1].value) > 1000 \/ HasControlCharacter(evaluated.result[1].value)))
    => /\ BodyMessage # evaluated.result[1].value
       /\ Len(BodyMessage) <= 1000
       /\ ~HasControlCharacter(BodyMessage)

C26_BodyIsValidatedMessage ==
    (Sent /\ Accepted /\ Requested) => BodyMessage = evaluated.result[1].value

(***************************************************************************)
(* C27: when the token request inside getAccessToken, refreshToken or      *)
(* requestTokenWithPassword fails (a validation error, a transport         *)
(* failure, an OAuth error body, a response without access_token), the     *)
(* call leaves the stored token state exactly as it was: the call writes   *)
(* nothing when it is entered, nothing while its request is retried and    *)
(* nothing when it rejects, so that the state after its failure is the     *)
(* state before it wherever no other operation wrote in between.           *)
(***************************************************************************)
StoringOps == {"getAccessToken", "refreshToken", "requestTokenWithPassword"}

Failed(call) == call.pc = "done" /\ call.op \in StoringOps /\ call.outcome = "rejected"

FailureLeavesToken ==
    Failed(oaSettled) =>
       /\ oaSettled.tokenAfter = oaSettled.tokenPrev
       /\ tokenInfo = oaSettled.tokenPrev
       /\ oaSettled.frame.invocations = 0 => tokenInfo = oaSettled.tokenBefore

\* a step in which such a call fails, and a step in which calls begin or go on
\* without any of them settling, leave the token state alone
FailingCallWritesNothing ==
    (Failed(oaSettled') \/ (oaSettled' = IdleCall /\ oaCalls' # oaCalls))
       => tokenInfo' = tokenInfo

C27_FailureLeavesTokenState == []FailureLeavesToken /\ [][FailingCallWritesNothing]_vars

\* refreshToken(), a token with a refresh token being stored, failed after its request
\* was retried: the token stored is the one stored before the call
C27_Witness ==
    /\ Failed(oaSettled)
    /\ oaSettled.op = "refreshToken"
    /\ oaSettled.frame.invocations = 2
    /\ oaSettled.tokenBefore # <<>>
    /\ tokenInfo = oaSettled.tokenBefore

(***************************************************************************)
(* C28: a refreshToken() call that runs concurrently with clearToken() or  *)
(* revokeToken() either succeeds or rejects with one of the typed errors   *)
(* of the library; it never rejects with an untyped runtime error because  *)
(* the token state was cleared while its request was in flight.            *)
(***************************************************************************)
TypedErrors ==
    {"TalkSASAAPIError", "TalkSASAValidationError", "TalkSASANetworkError",
     "TalkSASAAuthenticationError", "TalkSASAQuotaExceededError",
     "TalkSASAInsufficientBalanceError"}

\* the refreshToken() call sent its request with a token stored and settled with none
ClearedInFlight(call) ==
    /\ call.pc = "done"
    /\ call.op = "refreshToken"
    /\ call.frame.invocations >= 1
    /\ call.tokenBefore # <<>>
    /\ call.tokenPrev = <<>>

SucceededOrTyped(call) ==
    \/ call.outcome = "returned"
    \/ call.outcome = "rejected" /\ call.error[1].error.kind \in TypedErrors

\* what does hold: the call fares as the claim says whenever the response carries a
\* refresh token of its own or the request failed, and throws a TypeError otherwise
C28_TypedUnlessRefreshTokenOmitted ==
    ClearedInFlight(oaSettled) =>
       IF oaSettled.frame.pc = "returned" /\ parseTokenResponse(oaSettled.response[1]).ok
            /\ Parsed(oaSettled).refresh_token = Absent
         THEN /\ oaSettled.outcome = "rejected"
              /\ oaSettled.error[1].error.kind = "TypeError"
              /\ tokenInfo = <<>>
         ELSE SucceededOrTyped(oaSettled)

C28_RefreshSurvivesClearing ==
    ClearedInFlight(oaSettled) => SucceededOrTyped(oaSettled)

(***************************************************************************)
(* C29: once clearToken() or revokeToken() has completed, getTokenInfo()   *)
(* returns null and isTokenValid() returns false until a token operation   *)
(* started after that completion succeeds: a getAccessToken, refreshToken  *)
(* or requestTokenWithPassword call that was in flight when the token was  *)
(* cleared does not install a token afterwards.                            *)
(***************************************************************************)
\* the call sent its request with a token stored, and no token was stored any more
\* just before it settled: the token was cleared while the call was in flight
InFlightWhenCleared(call) ==
    /\ call.pc = "done"
    /\ call.op \in StoringOps
    /\ call.frame.invocations >= 1
    /\ call.tokenBefore # <<>>
    /\ call.tokenPrev = <<>>

\* what does hold: such a call installs the token of its response when it succeeds,
\* and leaves no token only when it fails
C29_InFlightCallReinstalls ==
    InFlightWhenCleared(oaSettled) =>
       /\ oaSettled.outcome = "returned" =>
             /\ getTokenInfo(tokenInfo, now) # <<>>
             /\ tokenInfo[1].access_token = Parsed(oaSettled).access_token
             /\ isTokenValid(tokenInfo, now) <=> now < tokenInfo[1].expires_at - Buffer
       /\ oaSettled.outcome = "rejected" => tokenInfo = <<>>

C29_ClearedStaysCleared ==
    InFlightWhenCleared(oaSettled) =>
       /\ getTokenInfo(tokenInfo, now) = <<>>
       /\ ~isTokenValid(tokenInfo, now)

(***************************************************************************)
(* C30: in OAuth2 mode every HTTP attempt of a client call, each retry     *)
(* attempt included, resolves its bearer token when the attempt starts:    *)
(* the request is sent with the cached token only if that token passes the *)
(* expiry check (five minutes of buffer) at that instant, and otherwise    *)
(* with the token returned by a client-credentials request started for     *)
(* that attempt; a token that expired between two attempts of a call is    *)
(* not sent with the later one.                                            *)
(***************************************************************************)
\* the step starts an attempt of the call in slot k, the first or a retry
AttemptStarts(k) == clCalls'[k].frame.invocations = clCalls[k].frame.invocations + 1

\* the step sends the request of the call in slot k to the gateway
Dispatched(k) == clCalls'[k].sent = clCalls[k].sent + 1

\* getAccessToken() as the request interceptor of call k has it pending or settled
FetchFor(k, oacall, t) ==
    /\ oacall.owner = k
    /\ oacall.op = "getAccessToken"
    /\ ~oacall.fromCache
    /\ oacall.request.grant_type = "client_credentials"
    /\ oacall.startedAt = t
    /\ ~isTokenValid(oacall.tokenBefore, t)

BearerResolvedPerAttempt ==
    apiKey = Absent =>
      \A k \in ClientSlots :
         /\ AttemptStarts(k) =>
               IF isTokenValid(tokenInfo, now')
                 THEN /\ Dispatched(k)
                      /\ clCalls'[k].bearer = tokenInfo[1].access_token
                      /\ UNCHANGED <<tokenInfo, oaCalls>>
                 ELSE /\ ~Dispatched(k)
                      /\ clCalls'[k].stage = "token"
                      /\ \E c \in Slots :
                            /\ oaCalls[c].pc = "idle"
                            /\ FetchFor(k, oaCalls'[c], now')
                            /\ oaCalls'[c].frame.invocations = 1
         /\ (Dispatched(k) /\ ~AttemptStarts(k)) =>
               \E c \in Slots :
                  /\ FetchFor(k, oaCalls[c], oaCalls[c].startedAt)
                  /\ oaCalls[c].startedAt >= clCalls[k].frame.wakeAt
                  /\ oaCalls[c].outcome = "returned"
                  /\ clCalls'[k].bearer = Parsed(oaCalls[c]).access_token
         /\ clCalls'[k].sent # clCalls[k].sent =>
               (Dispatched(k) \/ clCalls'[k] = ClientIdleCall)

C30_BearerResolvedAtEachAttempt == [][BearerResolvedPerAttempt]_vars

\* the retry of a call whose first attempt was sent with the cached token: the token
\* has expired during the backoff wait, and the attempt awaits a token of its own
C30_Witness ==
    /\ apiKey = Absent
    /\ clCalls[1].frame.invocations = 2
    /\ clCalls[1].sent = 1
    /\ clCalls[1].stage = "token"
    /\ tokenInfo # <<>>
    /\ clCalls[1].bearer = tokenInfo[1].access_token
    /\ isTokenValid(tokenInfo, now - clCalls[1].frame.waits[1])
    /\ ~isTokenValid(tokenInfo, now)
    /\ \E c \in Slots : FetchFor(1, oaCalls[c], now)

=============================================================================
